---- MODULE Spec2Model ----
(***************************************************************************)
(* Neural Evaluation Tree (neat/trees/netree.py): Kernel, NETNode and NET. *)
(*                                                                         *)
(* Numbers are exact rationals <<n, d>> (d > 0, lowest terms); the         *)
(* non-finite values of float64 are <<1, 0>> (inf), <<-1, 0>> (-inf) and   *)
(* <<0, 0>> (nan).  Rounding of float64 is not modelled: the kernels of    *)
(* the initial trees are small integers, on which float64 is exact.        *)
(* Python lists are sequences; a Python position p is index p + 1 here.    *)
(* Node objects are identified by their (unique) index.                    *)
(*                                                                         *)
(* The base classes STree and SNode (neat/trees/stree.py) are used through *)
(* __iter__, __len__, root, is_root, is_leaf, leafs, path_to_root,         *)
(* add_node_with_parent, soft_remove_node and sister_leafs.  A call is one *)
(* step, except calc_compartmentalization, which takes one step for every  *)
(* call of _remove_non_compartments on the deep copy.                      *)
(***************************************************************************)
EXTENDS Integers, Sequences, FiniteSets, TLC

\* ------------------------------------------------------------------ bounds
\* nodes of an initial tree
MaxNodes == 3
\* locations of an initial tree: 0 .. NLoc - 1
NLoc == 3
\* calls of improve_input_resistance in one behaviour
MaxImprove == 1
\* nodes of an initial tree that is compartmentalized
MaxCompNodes == 4

NoNode == -1

\* --------------------------------------------------------------- rationals
Abs(x) == IF x < 0 THEN -x ELSE x
Sign(x) == IF x < 0 THEN -1 ELSE IF x > 0 THEN 1 ELSE 0

RECURSIVE Gcd(_, _)
Gcd(a, b) == IF b = 0 THEN a ELSE Gcd(b, a % b)

\* the float n / d: lowest terms, d > 0; d = 0 gives inf, -inf or nan
Norm(n, d) ==
    IF d = 0 THEN <<Sign(n), 0>>
    ELSE LET g == Gcd(Abs(n), Abs(d))
             s == IF d < 0 THEN -1 ELSE 1
         IN  <<(s * n) \div g, (s * d) \div g>>

R(n) == <<n, 1>>
IsNaN(x) == x = <<0, 0>>
IsInf(x) == x[2] = 0 /\ x[1] # 0
IsFinite(x) == x[2] # 0

RAdd(x, y) ==
    IF IsNaN(x) \/ IsNaN(y) THEN <<0, 0>>
    ELSE IF IsInf(x) /\ IsInf(y) THEN (IF x = y THEN x ELSE <<0, 0>>)
    ELSE IF IsInf(x) THEN x
    ELSE IF IsInf(y) THEN y
    ELSE Norm(x[1] * y[2] + y[1] * x[2], x[2] * y[2])

RNeg(x) == <<-x[1], x[2]>>
RSub(x, y) == RAdd(x, RNeg(y))

RMul(x, y) ==
    IF IsNaN(x) \/ IsNaN(y) THEN <<0, 0>>
    ELSE IF IsInf(x) \/ IsInf(y)
         THEN <<Sign(x[1]) * Sign(y[1]), 0>>
    ELSE Norm(x[1] * y[1], x[2] * y[2])

\* float64 division: x / 0 is inf, -inf or nan (a warning, no exception)
RDiv(x, y) ==
    IF IsNaN(x) \/ IsNaN(y) THEN <<0, 0>>
    ELSE IF IsInf(x) /\ IsInf(y) THEN <<0, 0>>
    ELSE IF IsInf(x) THEN <<Sign(x[1]) * (IF y[1] < 0 THEN -1 ELSE 1), 0>>
    ELSE IF IsInf(y) THEN <<0, 1>>
    ELSE Norm(x[1] * y[2], x[2] * y[1])

RAbs(x) == <<Abs(x[1]), x[2]>>

\* x < y; every comparison with nan is false
RLt(x, y) ==
    IF IsNaN(x) \/ IsNaN(y) THEN FALSE
    ELSE IF IsInf(x) /\ IsInf(y) THEN x[1] < y[1]
    ELSE IF IsInf(x) THEN x[1] < 0
    ELSE IF IsInf(y) THEN y[1] > 0
    ELSE x[1] * y[2] < y[1] * x[2]

RGt(x, y) == RLt(y, x)
RLe(x, y) == ~IsNaN(x) /\ ~IsNaN(y) /\ ~RLt(y, x)

\* ---------------------------------------------------------------- sequences
Range(s) == {s[k] : k \in DOMAIN s}

RECURSIVE SumSeq(_)
SumSeq(s) == IF s = <<>> THEN R(0) ELSE RAdd(s[1], SumSeq(Tail(s)))

RECURSIVE SortedSeq(_)
SortedSeq(S) ==
    IF S = {} THEN <<>>
    ELSE LET m == CHOOSE x \in S : \A y \in S : x <= y
         IN  <<m>> \o SortedSeq(S \ {m})

\* list(set): CPython iterates a set of small non-negative ints (below the
\* table size, 8 for up to 4 elements) in ascending order
SetToList(S) == SortedSeq(S)

\* list.index / dict built by enumerate(): last position (0-based) of x
LastPos(s, x) == (CHOOSE k \in DOMAIN s : s[k] = x /\ \A j \in DOMAIN s : s[j] = x => j <= k) - 1
FirstPos(s, x) == (CHOOSE k \in DOMAIN s : s[k] = x /\ \A j \in DOMAIN s : s[j] = x => k <= j) - 1

RemoveAt(s, k) == SubSeq(s, 1, k - 1) \o SubSeq(s, k + 1, Len(s))
\* list.remove(x): drops the first occurrence
RemoveFirst(s, x) == RemoveAt(s, FirstPos(s, x) + 1)

\* ------------------------------------------------------------------ Kernel
\* Kernel.__init__ from a (rates, amplitudes) pair or from another Kernel:
\* the fields are deep copies, so a kernel is a value here
Kernel(a, c) == [a |-> a, c |-> c]

\* Kernel.__init__ from a float or an int
KernelOfScalar(v) == [a |-> <<R(1)>>, c |-> <<v>>]

\* Kernel.get_k_bar: sum(c / a)
k_bar(k) == SumSeq([i \in DOMAIN k.c |-> RDiv(k.c[i], k.a[i])])

\* np.allclose(x, y) on one pair: |x - y| <= 1e-8 + 1e-5 * |y|
IsClose(x, y) ==
    IF ~IsFinite(x) \/ ~IsFinite(y) THEN x = y /\ IsInf(x)
    ELSE Abs(x[1] * y[2] - y[1] * x[2])
            <= (x[2] * (y[2] + 1000 * Abs(y[1]))) \div 100000000

AllClose(xs, ys) == \A i \in DOMAIN xs : IsClose(xs[i], ys[i])

\* an addition that concatenates the modes in every case
KernelAdd_Concatenate(self, kernel) ==
    Kernel(self.a \o kernel.a, self.c \o kernel.c)

\* Kernel.__add__
KernelAdd(self, kernel) ==
    IF Len(kernel.a) = Len(self.a) /\ AllClose(kernel.a, self.a)
    THEN Kernel(self.a, [i \in DOMAIN self.c |-> RAdd(kernel.c[i], self.c[i])])
    ELSE Kernel(self.a \o kernel.a, self.c \o kernel.c)

\* ----------------------------------------------------------- NETNode, STree
\* NETNode.__init__ (with SNode.__init__: no parent, no children)
NETNode(index, loc_idxs, newloc_idxs, z_kernel) ==
    [index |-> index, parent_node |-> NoNode, child_nodes |-> <<>>,
     loc_idxs |-> loc_idxs, newloc_idxs |-> newloc_idxs, z_kernel |-> z_kernel]

\* NETNode.get_z
z_bar(node) == k_bar(node.z_kernel)

\* A tree is the function from node index to node; the root has no parent.
Indices(t) == DOMAIN t
RootIdx(t) == CHOOSE i \in DOMAIN t : t[i].parent_node = NoNode
Root(t) == t[RootIdx(t)]

\* NET(root): a tree of one node
TreeOf(root) == (root.index :> root)

is_root(t, i) == t[i].parent_node = NoNode
is_leaf(t, i) == t[i].child_nodes = <<>>

\* STree.add_node_with_parent
add_node_with_parent(t, node, p) ==
    [i \in DOMAIN t \cup {node.index} |->
        IF i = node.index THEN [node EXCEPT !.parent_node = p]
        ELSE IF i = p THEN [t[i] EXCEPT !.child_nodes = Append(@, node.index)]
        ELSE t[i]]

\* STree.__iter__: depth first, a node before its children, children in order
RECURSIVE IterFrom(_, _)
RECURSIVE IterAll(_, _)
IterAll(t, cs) == IF cs = <<>> THEN <<>> ELSE IterFrom(t, cs[1]) \o IterAll(t, Tail(cs))
IterFrom(t, i) == <<i>> \o IterAll(t, t[i].child_nodes)
Iter(t) == IterFrom(t, RootIdx(t))

\* STree.__len__
TreeLen(t) == Len(Iter(t))

\* STree.path_to_root: the node, its parent, ..., the root
RECURSIVE path_to_root(_, _)
path_to_root(t, i) ==
    IF t[i].parent_node = NoNode THEN <<i>>
    ELSE <<i>> \o path_to_root(t, t[i].parent_node)

\* STree.leafs
leafs_of(t) == SelectSeq(Iter(t), LAMBDA i : is_leaf(t, i))

\* --------------------------------------------------------------------- NET
\* NET.get_leaf_loc_node: the first node, in iteration order, that has
\* loc_idx among its new locations; None (NoNode) when there is none
get_leaf_loc_node(t, loc_idx) ==
    LET hits == SelectSeq(Iter(t), LAMBDA i : loc_idx \in Range(t[i].newloc_idxs))
    IN  IF hits = <<>> THEN NoNode ELSE hits[1]

\* the union of the children's loc_idxs (the inner loop of set_new_loc_idxs)
ChildLocs(t, i) == UNION {Range(t[c].loc_idxs) : c \in Range(t[i].child_nodes)}

\* set_new_loc_idxs that subtracts the locations of the first child only
set_new_loc_idxs_FirstChild(t) ==
    [i \in DOMAIN t |->
        [t[i] EXCEPT !.newloc_idxs =
            SetToList(Range(t[i].loc_idxs) \
                (IF t[i].child_nodes = <<>> THEN {}
                 ELSE Range(t[t[i].child_nodes[1]].loc_idxs)))]]

\* set_new_loc_idxs that starts from the locations of the root
set_new_loc_idxs_FromRoot(t) ==
    [i \in DOMAIN t |->
        [t[i] EXCEPT !.newloc_idxs =
            SetToList(Range(Root(t).loc_idxs) \ ChildLocs(t, i))]]

\* NET.set_new_loc_idxs
set_new_loc_idxs(t) ==
    [i \in DOMAIN t |->
        [t[i] EXCEPT !.newloc_idxs = SetToList(Range(t[i].loc_idxs) \ ChildLocs(t, i))]]

\* NET._construct_reduced_tree; returns new_tree as the call leaves it
RECURSIVE construct_reduced_tree(_, _, _, _, _)
RECURSIVE ConstructChildren(_, _, _, _, _)
ConstructChildren(self, cnodes, loc_idxs, node_newtree, new_tree) ==
    IF cnodes = <<>> THEN new_tree
    ELSE ConstructChildren(self, Tail(cnodes), loc_idxs, node_newtree,
            construct_reduced_tree(self, cnodes[1], loc_idxs, node_newtree, new_tree))
\* _construct_reduced_tree that drops the kernel of a node it merges
construct_reduced_tree_NoMerge(self, node, loc_idxs, node_newtree, new_tree) ==
    LET loc_idxs_subtree ==
            SetToList({l \in Range(loc_idxs) : l \in Range(self[node].loc_idxs)})
    IN  IF Len(loc_idxs_subtree) > 0
        THEN IF loc_idxs_subtree = loc_idxs
             THEN ConstructChildren(self, self[node].child_nodes, loc_idxs_subtree,
                    node_newtree, new_tree)
             ELSE LET idx == TreeLen(new_tree)
                      newnode == NETNode(idx, loc_idxs_subtree, <<>>, self[node].z_kernel)
                  IN  ConstructChildren(self, self[node].child_nodes, loc_idxs_subtree,
                        idx, add_node_with_parent(new_tree, newnode, node_newtree))
        ELSE new_tree

construct_reduced_tree(self, node, loc_idxs, node_newtree, new_tree) ==
    LET loc_idxs_subtree ==
            SetToList({l \in Range(loc_idxs) : l \in Range(self[node].loc_idxs)})
    IN  IF Len(loc_idxs_subtree) > 0
        THEN IF loc_idxs_subtree = loc_idxs
             THEN ConstructChildren(self, self[node].child_nodes, loc_idxs_subtree,
                    node_newtree,
                    [new_tree EXCEPT ![node_newtree].z_kernel =
                                        KernelAdd(@, self[node].z_kernel)])
             ELSE LET idx == TreeLen(new_tree)
                      newnode == NETNode(idx, loc_idxs_subtree, <<>>, self[node].z_kernel)
                  IN  ConstructChildren(self, self[node].child_nodes, loc_idxs_subtree,
                        idx, add_node_with_parent(new_tree, newnode, node_newtree))
        ELSE new_tree

\* NET.get_reduced_tree(loc_idxs) with indexing = 'NET eval'; loc_idxs is
\* only read through a set comprehension, so it is a set here.  The result
\* is None (the empty function) when no requested location is in the root.
NoTree == <<>>
\* get_reduced_tree that descends into the first child of the root only
get_reduced_tree_FirstChild(self, loc_idxs) ==
    LET loc_idxs_newtree == SetToList({l \in loc_idxs : l \in Range(Root(self).loc_idxs)})
    IN  IF loc_idxs_newtree # <<>>
        THEN LET new_root == NETNode(0, loc_idxs_newtree, <<>>, Root(self).z_kernel)
             IN  set_new_loc_idxs(
                    ConstructChildren(self,
                        IF Root(self).child_nodes = <<>> THEN <<>>
                        ELSE <<Head(Root(self).child_nodes)>>,
                        loc_idxs_newtree, 0, TreeOf(new_root)))
        ELSE <<>>

\* get_reduced_tree that gives the new root every requested location
get_reduced_tree_AllRequested(self, loc_idxs) ==
    LET loc_idxs_newtree == SetToList({l \in loc_idxs : l \in Range(Root(self).loc_idxs)})
    IN  IF loc_idxs_newtree # <<>>
        THEN LET new_root == NETNode(0, SetToList(loc_idxs), <<>>, Root(self).z_kernel)
             IN  set_new_loc_idxs(
                    ConstructChildren(self, Root(self).child_nodes, loc_idxs_newtree,
                                      0, TreeOf(new_root)))
        ELSE NoTree

get_reduced_tree(self, loc_idxs) ==
    LET loc_idxs_newtree == SetToList({l \in loc_idxs : l \in Range(Root(self).loc_idxs)})
    IN  IF loc_idxs_newtree # <<>>
        THEN LET new_root == NETNode(0, loc_idxs_newtree, <<>>, Root(self).z_kernel)
             IN  set_new_loc_idxs(
                    ConstructChildren(self, Root(self).child_nodes, loc_idxs_newtree,
                                      0, TreeOf(new_root)))
        ELSE NoTree

\* calc_total_impedance that leaves the node itself out of the path
calc_total_impedance_NoSelf(t, node) ==
    LET path == Tail(path_to_root(t, node))
    IN  SumSeq([k \in DOMAIN path |-> z_bar(t[path[k]])])

\* NET.calc_total_impedance
calc_total_impedance(t, node) ==
    LET path == path_to_root(t, node)
    IN  SumSeq([k \in DOMAIN path |-> z_bar(t[path[k]])])

\* NET.calc_total_kernel
RECURSIVE AddKernels(_, _, _)
AddKernels(t, z_k, path) ==
    IF path = <<>> THEN z_k
    ELSE AddKernels(t, KernelAdd(z_k, t[path[1]].z_kernel), Tail(path))
calc_total_kernel(t, node) ==
    IF t[node].parent_node # NoNode
    THEN AddKernels(t, t[node].z_kernel, path_to_root(t, t[node].parent_node))
    ELSE t[node].z_kernel

\* a value or the exception that ended the call
Ok(v) == [err |-> "", val |-> v]
Raise(e) == [err |-> e, val |-> <<>>]

\* NET._add_node_to_imp_mat over the nodes in recursion order: a fancy-indexed
\* += adds z_bar once to every distinct (row, column) pair
RECURSIVE AddNodesToImpMat(_, _, _, _)
AddNodesToImpMat(t, nodes, z_mat, loc_map) ==
    IF nodes = <<>> THEN Ok(z_mat)
    ELSE LET node == t[nodes[1]]
         IN  IF \E l \in Range(node.loc_idxs) : l \notin DOMAIN loc_map
             THEN Raise("KeyError")
             ELSE IF node.loc_idxs = <<>> THEN Raise("IndexError")
             ELSE LET inds == {loc_map[l] : l \in Range(node.loc_idxs)}
                  IN  AddNodesToImpMat(t, Tail(nodes),
                        [p \in DOMAIN z_mat |->
                            IF p[1] \in inds /\ p[2] \in inds
                            THEN RAdd(z_mat[p], z_bar(node)) ELSE z_mat[p]],
                        loc_map)

\* calc_impedance_matrix that takes a location index for its position
calc_impedance_matrix_NoLocMap(t) ==
    LET rl == Root(t).loc_idxs
        n_loc == Len(rl)
        loc_map == [l \in Range(rl) |-> l]
        zeros == [p \in (0 .. n_loc - 1) \X (0 .. n_loc - 1) |-> R(0)]
    IN  AddNodesToImpMat(t, Iter(t), zeros, loc_map)

\* NET.calc_impedance_matrix; rows and columns are positions 0 .. n_loc - 1
calc_impedance_matrix(t) ==
    LET rl == Root(t).loc_idxs
        n_loc == Len(rl)
        loc_map == [l \in Range(rl) |-> LastPos(rl, l)]
        zeros == [p \in (0 .. n_loc - 1) \X (0 .. n_loc - 1) |-> R(0)]
    IN  AddNodesToImpMat(t, Iter(t), zeros, loc_map)

\* calc_i_z_matrix that takes the row's diagonal entry twice
calc_i_z_matrix_RowDiagonal(t) ==
    LET zm == calc_impedance_matrix(t)
    IN  IF zm.err # "" THEN zm
        ELSE Ok([p \in DOMAIN zm.val |->
                    RSub(RDiv(RAdd(zm.val[<<p[1], p[1]>>], zm.val[<<p[1], p[1]>>]),
                              RMul(R(2), zm.val[p])),
                         R(1))])

\* NET.calc_i_z_matrix
calc_i_z_matrix(t) ==
    LET zm == calc_impedance_matrix(t)
    IN  IF zm.err # "" THEN zm
        ELSE Ok([p \in DOMAIN zm.val |->
                    RSub(RDiv(RAdd(zm.val[<<p[1], p[1]>>], zm.val[<<p[2], p[2]>>]),
                              RMul(R(2), zm.val[p])),
                         R(1))])

\* the inner loop of calc_i_z without the test for the root
IzOfPair_NoRootTest(t, loc_idx0, loc_idx1) ==
    LET net_red == get_reduced_tree(t, {loc_idx0, loc_idx1})
    IN  IF net_red = <<>> THEN Raise("AttributeError")
        ELSE LET n0 == get_leaf_loc_node(net_red, loc_idx0)
                 n1 == get_leaf_loc_node(net_red, loc_idx1)
             IN  IF n0 = NoNode \/ n1 = NoNode THEN Raise("AttributeError")
                 ELSE Ok(RDiv(RAdd(z_bar(net_red[n0]), z_bar(net_red[n1])),
                              RMul(R(2), z_bar(Root(net_red)))))

\* the body of the inner loop of calc_i_z for one pair of locations
IzOfPair(t, loc_idx0, loc_idx1) ==
    LET net_red == get_reduced_tree(t, {loc_idx0, loc_idx1})
    IN  IF net_red = NoTree THEN Raise("AttributeError")
        ELSE LET n0 == get_leaf_loc_node(net_red, loc_idx0)
                 n1 == get_leaf_loc_node(net_red, loc_idx1)
             IN  IF n0 = NoNode \/ n1 = NoNode THEN Raise("AttributeError")
                 ELSE LET z0 == IF n0 # RootIdx(net_red) THEN z_bar(net_red[n0]) ELSE R(0)
                          z1 == IF n1 # RootIdx(net_red) THEN z_bar(net_red[n1]) ELSE R(0)
                      IN  Ok(RDiv(RAdd(z0, z1), RMul(R(2), z_bar(Root(net_red)))))

\* NET.calc_i_z(loc_idxs): pairs (ii, jj) with jj < ii, keyed (smaller, larger);
\* a later pair with the same key overwrites; two locations give the value
calc_i_z(t, loc_idxs) ==
    LET pairs == {p \in (DOMAIN loc_idxs) \X (DOMAIN loc_idxs) : p[2] < p[1]}
        key(p) == IF loc_idxs[p[1]] < loc_idxs[p[2]]
                  THEN <<loc_idxs[p[1]], loc_idxs[p[2]]>>
                  ELSE <<loc_idxs[p[2]], loc_idxs[p[1]]>>
        val(p) == IzOfPair(t, loc_idxs[p[1]], loc_idxs[p[2]])
        last(k) == CHOOSE p \in pairs : key(p) = k /\
                      \A q \in pairs : key(q) = k =>
                          (q[1] < p[1] \/ (q[1] = p[1] /\ q[2] <= p[2]))
        Iz_dict == [k \in {key(p) : p \in pairs} |-> val(last(k)).val]
    IN  IF \E p \in pairs : val(p).err # "" THEN Raise("AttributeError")
        ELSE IF Len(loc_idxs) = 2
             THEN (IF pairs = {} THEN Raise("IndexError")
                   ELSE Ok(Iz_dict[key(<<2, 1>>)]))
             ELSE Ok(Iz_dict)

\* |x| > 1e-7
AboveTolerance(x) ==
    IF IsNaN(x) THEN FALSE
    ELSE IF IsInf(x) THEN TRUE
    ELSE Abs(x[1]) > x[2] \div 10000000

\* a scaling that reaches the first mode only
ScaleKernel_FirstMode(k, f_z) ==
    Kernel(k.a, [i \in DOMAIN k.c |-> IF i = 1 THEN RMul(k.c[i], f_z) ELSE k.c[i]])

\* node.z_kernel.c * f_z
ScaleKernel(k, f_z) == Kernel(k.a, [i \in DOMAIN k.c |-> RMul(k.c[i], f_z)])

\* the loop of improve_input_resistance over the new locations of one node;
\* acc is [t, nmaxind]: the tree and the largest index handed out
RECURSIVE ImproveNewLocs(_, _, _, _, _)
ImproveNewLocs(acc, node, inds, z_k_approx, z_diag) ==
    IF inds = <<>> THEN acc
    ELSE LET ind == inds[1]
             nmaxind == acc.nmaxind + 1
             f_z == RSub(z_diag[ind], k_bar(z_k_approx))
             z_k_real == ScaleKernel(acc.t[node].z_kernel,
                                     RDiv(f_z, z_bar(acc.t[node])))
             newnode == NETNode(nmaxind, <<ind>>, <<ind>>, z_k_real)
         IN  ImproveNewLocs(
                IF AboveTolerance(f_z)
                THEN [t |-> add_node_with_parent(acc.t, newnode, node), nmaxind |-> nmaxind]
                ELSE [t |-> acc.t, nmaxind |-> nmaxind],
                node, Tail(inds), z_k_approx, z_diag)

\* the loop of improve_input_resistance over the nodes the tree had at the call
RECURSIVE ImproveNodes(_, _, _)
ImproveNodes(acc, nodes, z_diag) ==
    IF nodes = <<>> THEN acc
    ELSE LET node == nodes[1]
             n == acc.t[node]
         IN  IF Len(n.loc_idxs) = 1
             THEN LET ind == n.loc_idxs[1]
                      p_k == IF n.parent_node # NoNode
                             THEN calc_total_kernel(acc.t, n.parent_node)
                             ELSE Kernel(n.z_kernel.a, [i \in DOMAIN n.z_kernel.a |-> R(0)])
                      f_z == RDiv(RSub(z_diag[ind], k_bar(p_k)), z_bar(n))
                  IN  ImproveNodes(
                        [acc EXCEPT !.t[node].z_kernel = ScaleKernel(n.z_kernel, f_z)],
                        Tail(nodes), z_diag)
             ELSE IF Len(n.newloc_idxs) > 0
             THEN LET added == ImproveNewLocs(acc, node, n.newloc_idxs,
                                              calc_total_kernel(acc.t, node), z_diag)
                  IN  ImproveNodes([added EXCEPT !.t[node].newloc_idxs = <<>>],
                                   Tail(nodes), z_diag)
             ELSE ImproveNodes(acc, Tail(nodes), z_diag)

\* the largest of a non-empty set of ints
Max(S) == CHOOSE x \in S : \A y \in S : y <= x

\* NET.improve_input_resistance(z_mat); only the diagonal of z_mat is read,
\* z_diag[i] is z_mat[i, i]
improve_input_resistance(t, z_diag) ==
    set_new_loc_idxs(
        ImproveNodes([t |-> t, nmaxind |-> Max(DOMAIN t)], Iter(t), z_diag).t)

\* ---------------------------------------------------- compartmentalization
\* _set_compartment_data that keeps every entry
set_compartment_data_KeepAll(node_list, z_root_list, z_comp_list, Iz) ==
    [_z_root |-> z_root_list, _z_comp |-> z_comp_list,
     _node_inds |-> SelectSeq(node_list, LAMBDA n : n # NoNode)]

\* _set_compartment_data that keeps the entries whose z_comp / z_root is below Iz
set_compartment_data_Below(node_list, z_root_list, z_comp_list, Iz) ==
    LET node_inds == SelectSeq(node_list, LAMBDA n : n # NoNode)
        comp_inds == SortedSeq({k \in DOMAIN z_comp_list :
                        RLt(RDiv(z_comp_list[k], z_root_list[k]), Iz)})
    IN  [_z_root |-> [k \in DOMAIN comp_inds |-> z_root_list[comp_inds[k]]],
         _z_comp |-> [k \in DOMAIN comp_inds |-> z_comp_list[comp_inds[k]]],
         _node_inds |-> [k \in DOMAIN comp_inds |-> node_inds[comp_inds[k]]]]

\* NETNode._set_compartment_data: the entries whose z_comp / z_root exceeds Iz
set_compartment_data(node_list, z_root_list, z_comp_list, Iz) ==
    LET node_inds == SelectSeq(node_list, LAMBDA n : n # NoNode)
        comp_inds == SortedSeq({k \in DOMAIN z_comp_list :
                        RGt(RDiv(z_comp_list[k], z_root_list[k]), Iz)})
    IN  [_z_root |-> [k \in DOMAIN comp_inds |-> z_root_list[comp_inds[k]]],
         _z_comp |-> [k \in DOMAIN comp_inds |-> z_comp_list[comp_inds[k]]],
         _node_inds |-> [k \in DOMAIN comp_inds |-> node_inds[comp_inds[k]]]]

\* NET._set_compartment_info below the root; data maps a node to its fields
RECURSIVE set_compartment_info(_, _, _, _, _, _, _, _)
RECURSIVE SetCompartmentInfoChildren(_, _, _, _, _, _, _, _)
\* _set_compartment_info that starts the dependent impedance of a node from
\* the node's own z_bar instead of its parent's
set_compartment_info_OwnImpedance(t, Iz, node, z_p, node_list, z_root_list, z_comp_list, data) ==
    LET z_root == Append(z_root_list,
                    IF z_root_list = <<>> THEN z_bar(t[node])
                    ELSE RAdd(z_root_list[Len(z_root_list)], z_bar(t[node])))
        z_comp == [k \in 1 .. Len(z_comp_list) + 1 |->
                    RAdd(z_bar(t[node]), Append(z_comp_list, R(0))[k])]
        nodes == Append(node_list, t[node].parent_node)
    IN  SetCompartmentInfoChildren(t, Iz, t[node].child_nodes, z_bar(t[node]),
            nodes, z_root, z_comp,
            [data EXCEPT ![node] = set_compartment_data(nodes, z_root, z_comp, Iz)])

SetCompartmentInfoChildren(t, Iz, cnodes, z_p, node_list, z_root_list, z_comp_list, data) ==
    IF cnodes = <<>> THEN data
    ELSE SetCompartmentInfoChildren(t, Iz, Tail(cnodes), z_p,
            node_list, z_root_list, z_comp_list,
            set_compartment_info(t, Iz, cnodes[1], z_p,
                node_list, z_root_list, z_comp_list, data))

set_compartment_info(t, Iz, node, z_p, node_list, z_root_list, z_comp_list, data) ==
    LET z_root == Append(z_root_list,
                    IF z_root_list = <<>> THEN z_p
                    ELSE RAdd(z_root_list[Len(z_root_list)], z_p))
        z_comp == [k \in 1 .. Len(z_comp_list) + 1 |->
                    RAdd(z_bar(t[node]), Append(z_comp_list, R(0))[k])]
        nodes == Append(node_list, t[node].parent_node)
    IN  SetCompartmentInfoChildren(t, Iz, t[node].child_nodes, z_bar(t[node]),
            nodes, z_root, z_comp,
            [data EXCEPT ![node] = set_compartment_data(nodes, z_root, z_comp, Iz)])

\* NET._set_compartments_relative with NETNode._set_tentative_compartments
set_compartments_relative(fields, index) ==
    [_z_root |-> fields._z_root, _z_comp |-> fields._z_comp,
     _node_inds |-> fields._node_inds,
     _comps |-> [k \in DOMAIN fields._z_comp |-> <<index>>]]

\* NET._compute_tentative_compartments: the fields of every node of the tree
compute_tentative_compartments(t, Iz) ==
    LET at_root == [i \in Range(Iter(t)) |-> set_compartment_data(<<>>, <<>>, <<>>, R(0))]
        info == SetCompartmentInfoChildren(t, Iz, Root(t).child_nodes, z_bar(Root(t)),
                    <<>>, <<>>, <<>>, at_root)
    IN  [i \in DOMAIN info |-> set_compartments_relative(info[i], i)]

\* STree.soft_remove_node: the parent drops the node from its children; the
\* node keeps its own links
soft_remove_node(t, node) ==
    LET p == t[node].parent_node
    IN  [t EXCEPT ![p].child_nodes = RemoveFirst(@, node)]

\* STree._go_up_until: the nearest node above that has several children, or
\* the root, and its child on the way; c_node is None when node is the start
RECURSIVE go_up_until(_, _, _)
go_up_until(t, node, c_node) ==
    IF (c_node # NoNode /\ Len(t[node].child_nodes) > 1) \/ is_root(t, node)
    THEN [node |-> node, c_node |-> c_node]
    ELSE go_up_until(t, t[node].parent_node, node)

\* STree._go_down_until: the leaf at the end of an unbranched line below
\* c_node; a branching leaves c_node without a leaf
RECURSIVE go_down_until(_, _, _)
go_down_until(t, node, c_node) ==
    IF Len(t[node].child_nodes) = 0 THEN [sl |-> <<node>>, cn |-> <<c_node>>]
    ELSE IF Len(t[node].child_nodes) = 1
         THEN go_down_until(t, t[node].child_nodes[1], c_node)
         ELSE [sl |-> <<>>, cn |-> <<c_node>>]

\* the ways to list a finite set
Orders(S) == {s \in [1 .. Cardinality(S) -> S] : Range(s) = S}

RECURSIVE GoDownAll(_, _)
GoDownAll(t, others) ==
    IF others = <<>> THEN [sl |-> <<>>, cn |-> <<>>]
    ELSE LET first == go_down_until(t, others[1], others[1])
             rest == GoDownAll(t, Tail(others))
         IN  [sl |-> first.sl \o rest.sl, cn |-> first.cn \o rest.cn]

\* STree.sister_leafs: (common root, sister leafs, corresponding children);
\* the other children are visited in the order of a set of node objects,
\* which is any order
sister_leafs(t, node) ==
    LET up == go_up_until(t, node, NoNode)
        others == Range(t[up.node].child_nodes) \ {up.c_node}
    IN  {[common_root |-> up.node,
          sister_leafs |-> <<node>> \o GoDownAll(t, order).sl,
          corresponding_children |-> <<up.c_node>> \o GoDownAll(t, order).cn] :
            order \in Orders(others)}

\* the loop "while root.index in new_leaf._node_inds" of _remove_non_compartments
\* and _set_compartments_leafbased: old_leaf when the loop ends, None (NoNode)
\* when its body never ran.  The root's _node_inds is empty, so new_leaf
\* never passes the root.
RECURSIVE WalkToCompartment(_, _, _, _, _)
WalkToCompartment(t, data, root, new_leaf, old_leaf) ==
    IF new_leaf # NoNode /\ root \in Range(data[new_leaf]._node_inds)
    THEN WalkToCompartment(t, data, root, t[new_leaf].parent_node, new_leaf)
    ELSE old_leaf

\* the first position (0-based) of the smallest entry
ArgMax_Smallest(z) ==
    (CHOOSE k \in DOMAIN z :
        /\ \A j \in DOMAIN z : ~RLt(z[j], z[k])
        /\ \A j \in 1 .. k - 1 : RGt(z[j], z[k])) - 1

\* np.argmax: the first position (0-based) of the largest entry
ArgMax(z) ==
    (CHOOSE k \in DOMAIN z :
        /\ \A j \in DOMAIN z : ~RGt(z[j], z[k])
        /\ \A j \in 1 .. k - 1 : RLt(z[j], z[k])) - 1

\* the loops "for ii, cnode in enumerate(corresponding_children)" of
\* _remove_non_compartments; keep holds the positions (0-based) that stay
RECURSIVE RemoveSisters(_, _, _, _, _, _)
RemoveSisters(t, leafs, sl, cc, keep, ii) ==
    IF ii >= Len(cc) THEN [err |-> "", net |-> t, leafs |-> leafs]
    ELSE IF ii \in keep THEN RemoveSisters(t, leafs, sl, cc, keep, ii + 1)
    ELSE IF cc[ii + 1] = NoNode
         THEN [err |-> "AttributeError", net |-> t, leafs |-> leafs]
    ELSE IF sl[ii + 1] \notin Range(leafs)
         THEN [err |-> "ValueError", net |-> soft_remove_node(t, cc[ii + 1]),
               leafs |-> leafs]
    ELSE RemoveSisters(soft_remove_node(t, cc[ii + 1]), RemoveFirst(leafs, sl[ii + 1]),
                       sl, cc, keep, ii + 1)

\* One call of NET._remove_non_compartments up to its recursive call: sis is
\* what net.sister_leafs(leafs[0]) returned.  again tells whether the call
\* recurses, with the leafs and the n_count of the result.
remove_non_compartments(net_, data, leafs_, n_count, sis) ==
    LET n_leaf == Len(leafs_)
        leafs == Tail(leafs_) \o <<Head(leafs_)>>
        common_root == sis.common_root
        sl == sis.sister_leafs
        cc == sis.corresponding_children
        stay == [err |-> "", net |-> net_, leafs |-> leafs]
        Result(out, n, again) ==
            [err |-> out.err, net |-> out.net, leafs |-> out.leafs,
             n_count |-> n, again |-> again]
    IN  IF Len(sl) = Len(cc)
        THEN LET sinds_comp == {k - 1 : k \in {j \in DOMAIN sl :
                        WalkToCompartment(net_, data, common_root, sl[j], NoNode) # NoNode}}
                 ind == ArgMax([k \in DOMAIN sl |-> calc_total_impedance(net_, sl[k])])
                 keep == IF Cardinality(sinds_comp) <= 1 /\ ~is_root(net_, common_root)
                         THEN {ind} ELSE sinds_comp
                 out == RemoveSisters(net_, leafs, sl, cc, keep, 0)
             IN  IF out.err # "" THEN Result(out, n_count, FALSE)
                 ELSE IF n_leaf # Len(out.leafs) /\ Len(out.leafs) > 0
                      THEN Result(out, 0, TRUE)
                 ELSE IF n_count < Len(out.leafs) THEN Result(out, n_count + 1, TRUE)
                 ELSE Result(out, n_count, FALSE)
        ELSE IF n_count < Len(leafs) /\ Len(leafs) > 0
             THEN Result(stay, n_count + 1, TRUE)
             ELSE Result(stay, n_count, FALSE)

\* _set_compartments_leafbased that walks up for the root of the tree
\* instead of the common root of the sister leafs
set_compartments_leafbased_TreeRoot(leafs, net_, data) ==
    LET root(leaf) == RootIdx(net_)
        old_leaf(leaf) == WalkToCompartment(net_, data, root(leaf), leaf, NoNode)
        marked == SelectSeq(leafs, LAMBDA leaf : old_leaf(leaf) # NoNode)
    IN  [k \in DOMAIN marked |->
            [node |-> old_leaf(marked[k]),
             _root_ind |-> FirstPos(data[old_leaf(marked[k])]._node_inds,
                                    root(marked[k]))]]

\* NET._set_compartments_leafbased: the compartment nodes, each with the
\* _root_ind that _set_shared_root_idx stores on it
set_compartments_leafbased(leafs, net_, data) ==
    LET root(leaf) == go_up_until(net_, leaf, NoNode).node
        old_leaf(leaf) == WalkToCompartment(net_, data, root(leaf), leaf, NoNode)
        marked == SelectSeq(leafs, LAMBDA leaf : old_leaf(leaf) # NoNode)
    IN  [k \in DOMAIN marked |->
            [node |-> old_leaf(marked[k]),
             _root_ind |-> FirstPos(data[old_leaf(marked[k])]._node_inds,
                                    root(marked[k]))]]

\* the calls of _remove_non_compartments from one call to the end of the
\* recursion: the results that the orders of sister_leafs allow
RECURSIVE RemoveAll(_, _, _, _)
RemoveAll(net_, data, leafs, n_count) ==
    IF leafs = <<>>
    THEN {[err |-> "IndexError", net |-> net_, leafs |-> leafs,
           n_count |-> n_count, again |-> FALSE]}
    ELSE UNION {
            LET out == remove_non_compartments(net_, data, leafs, n_count, sis)
            IN  IF out.again THEN RemoveAll(out.net, data, out.leafs, out.n_count)
                ELSE {out} :
            sis \in sister_leafs(net_, Head(leafs))}

\* the end of calc_compartmentalization: the compartments in the asked form;
\* NETNode has no attribute rootind
CompartmentsOf(comp_nodes, data, returntype) ==
    IF returntype = "node index"
    THEN Ok([k \in DOMAIN comp_nodes |->
                data[comp_nodes[k].node]._comps[comp_nodes[k]._root_ind + 1]])
    ELSE IF comp_nodes = <<>> THEN Ok(<<>>) ELSE Raise("AttributeError")

\* NET.calc_compartmentalization from call to return: the values it can return
calc_compartmentalization(self, Iz, returntype) ==
    LET data == compute_tentative_compartments(self, Iz)
    IN  {IF out.err # "" THEN Raise(out.err)
         ELSE CompartmentsOf(
                set_compartments_leafbased(leafs_of(out.net), out.net, data),
                data, returntype) :
            out \in RemoveAll(self, data, leafs_of(self), 0)}

\* ----------------------------------------------------------- initial trees
\* the kernels of the initial nodes: k_bar 2 (one mode) and k_bar 5 (two modes)
KernelChoices ==
    {Kernel(<<R(1)>>, <<R(2)>>), Kernel(<<R(1), R(2)>>, <<R(1), R(8)>>)}

Locs == 0 .. NLoc - 1
Reverse(s) == [k \in DOMAIN s |-> s[Len(s) + 1 - k]]
\* the root lists the locations 0 .. n - 1, in ascending or in descending order
RootLocLists ==
    UNION {{SetToList(0 .. n - 1), Reverse(SetToList(0 .. n - 1))} : n \in 1 .. NLoc}

\* The trees of n nodes built by n - 1 calls of add_node_with_parent on
\* NET(root), the root listing one of roots: node indices 0 .. n - 1, every
\* node's locations a non-empty subset of its parent's, siblings disjoint.
RECURSIVE TreesFrom(_, _)
TreesFrom(roots, n) ==
    IF n = 1
    THEN {TreeOf(NETNode(0, rl, <<>>, k)) : rl \in roots, k \in KernelChoices}
    ELSE UNION {
            UNION {
                {add_node_with_parent(t, NETNode(n - 1, SetToList(S), <<>>, k), p) :
                    k \in KernelChoices,
                    S \in (SUBSET (Range(t[p].loc_idxs) \ ChildLocs(t, p))) \ {{}}} :
                p \in DOMAIN t} :
            t \in TreesFrom(roots, n - 1)}

InitialTrees == UNION {TreesFrom(RootLocLists, n) : n \in 1 .. MaxNodes}

\* the trees that are compartmentalized: the root lists every location
CompTrees == UNION {TreesFrom({SetToList(Locs)}, n) : n \in 1 .. MaxCompNodes}

\* ------------------------------------------------------------------- state
VARIABLES
    net,        \* the caller's NET
    ret,        \* the call that has just returned: [op, arg, err, val]
    nimprove,   \* calls of improve_input_resistance so far
    comp,       \* the running call of calc_compartmentalization
    hk          \* the compartment fields on the caller's nodes, by node index

vars == <<net, ret, nimprove, comp, hk>>
compvars == <<comp, hk>>

Return(op, arg, r) == [op |-> op, arg |-> arg, err |-> r.err, val |-> r.val]
\* no call has returned a value the caller still holds
Idle == Return("idle", <<>>, Ok(<<>>))

\* the frame of calc_compartmentalization: pc is where the call stands, net
\* the deep copy, leafs and n_count the arguments of the pending call of
\* _remove_non_compartments, _root_ind the field set on nodes of the copy
Frame(pc, Iz, returntype, net_, leafs, n_count, root_ind) ==
    [pc |-> pc, Iz |-> Iz, returntype |-> returntype, net |-> net_,
     leafs |-> leafs, n_count |-> n_count, _root_ind |-> root_ind]
NoCall == Frame("idle", R(0), "", <<>>, <<>>, 0, <<>>)

\* no call is running and the last result has been dropped
Ready == ret = Idle /\ comp.pc = "idle"

\* the tree as its constructors leave it: newloc_idxs is the default, [],
\* and no node carries a compartment field
InitOn(trees) ==
    /\ net \in trees
    /\ ret = Idle
    /\ nimprove = 0
    /\ comp = NoCall
    /\ hk = <<>>

Init == InitOn(InitialTrees)

\* -------------------------------------------------------------- operations
SetNewLocIdxs ==
    /\ Ready
    /\ net' = set_new_loc_idxs(net)
    /\ ret' = Return("set_new_loc_idxs", <<>>, Ok(<<>>))
    /\ UNCHANGED <<nimprove, compvars>>

\* the locations a caller asks for: those of the tree and one absent one
Requests == SUBSET (0 .. NLoc)

GetReducedTree ==
    /\ Ready
    /\ \E L \in Requests :
        ret' = Return("get_reduced_tree", L, Ok(get_reduced_tree(net, L)))
    /\ UNCHANGED <<net, nimprove, compvars>>

CalcImpedanceMatrix ==
    /\ Ready
    /\ ret' = Return("calc_impedance_matrix", <<>>, calc_impedance_matrix(net))
    /\ UNCHANGED <<net, nimprove, compvars>>

CalcIZMatrix ==
    /\ Ready
    /\ ret' = Return("calc_i_z_matrix", <<>>, calc_i_z_matrix(net))
    /\ UNCHANGED <<net, nimprove, compvars>>

CalcIZ ==
    /\ Ready
    /\ \E i \in Locs, j \in Locs :
        ret' = Return("calc_i_z", <<i, j>>, calc_i_z(net, <<i, j>>))
    /\ UNCHANGED <<net, nimprove, compvars>>

CalcTotalImpedance ==
    /\ Ready
    /\ \E node \in DOMAIN net :
        ret' = Return("calc_total_impedance", node, Ok(calc_total_impedance(net, node)))
    /\ UNCHANGED <<net, nimprove, compvars>>

CalcTotalKernel ==
    /\ Ready
    /\ \E node \in DOMAIN net :
        ret' = Return("calc_total_kernel", node, Ok(calc_total_kernel(net, node)))
    /\ UNCHANGED <<net, nimprove, compvars>>

\* the reference diagonals a caller passes: 7 or 9 MOhm at every location
RefValues == {R(7), R(9)}
RefDiagonals(t) == [Range(Root(t).loc_idxs) -> RefValues]

ImproveInputResistance ==
    /\ Ready
    /\ nimprove < MaxImprove
    /\ \E z_diag \in RefDiagonals(net) :
        /\ net' = improve_input_resistance(net, z_diag)
        /\ ret' = Return("improve_input_resistance", z_diag, Ok(<<>>))
    /\ nimprove' = nimprove + 1
    /\ UNCHANGED compvars

\* the thresholds a caller asks for
IzChoices == {<<1, 2>>, R(1), R(3)}
ReturnTypes == {"node index", "node"}

\* calc_compartmentalization up to the first call of _remove_non_compartments
CalcCompartmentalization ==
    /\ Ready
    /\ \E Iz \in IzChoices, returntype \in ReturnTypes :
        /\ hk' = compute_tentative_compartments(net, Iz)
        /\ comp' = Frame("remove", Iz, returntype, net, leafs_of(net), 0, <<>>)
    /\ UNCHANGED <<net, ret, nimprove>>

\* one call of _remove_non_compartments on the deep copy
RemoveNonCompartments ==
    /\ comp.pc = "remove"
    /\ IF comp.leafs = <<>>
       THEN /\ comp' = [comp EXCEPT !.pc = "raised"]
            /\ ret' = Return("calc_compartmentalization",
                        <<comp.Iz, comp.returntype>>, Raise("IndexError"))
       ELSE \E sis \in sister_leafs(comp.net, Head(comp.leafs)) :
            LET out == remove_non_compartments(comp.net, hk, comp.leafs, comp.n_count, sis)
            IN  /\ comp' = [comp EXCEPT
                        !.pc = IF out.err # "" THEN "raised"
                               ELSE IF out.again THEN "remove" ELSE "collect",
                        !.net = out.net, !.leafs = out.leafs, !.n_count = out.n_count]
                /\ ret' = IF out.err # ""
                          THEN Return("calc_compartmentalization",
                                    <<comp.Iz, comp.returntype>>, Raise(out.err))
                          ELSE ret
    /\ UNCHANGED <<net, nimprove, hk>>

\* the rest of calc_compartmentalization: _set_compartments_leafbased on the
\* leafs of the pruned copy, and the return value
SetCompartmentsLeafbased ==
    /\ comp.pc = "collect"
    /\ LET comp_nodes == set_compartments_leafbased(leafs_of(comp.net), comp.net, hk)
       IN  /\ comp' = [comp EXCEPT !.pc = "returned",
                        !._root_ind = [n \in {comp_nodes[k].node : k \in DOMAIN comp_nodes} |->
                            comp_nodes[CHOOSE k \in DOMAIN comp_nodes :
                                            comp_nodes[k].node = n]._root_ind]]
           /\ ret' = Return("calc_compartmentalization", <<comp.Iz, comp.returntype>>,
                        CompartmentsOf(comp_nodes, hk, comp.returntype))
    /\ UNCHANGED <<net, nimprove, hk>>

\* the caller drops the returned value; the copy goes with the call
Done ==
    /\ ret # Idle
    /\ ret' = Idle
    /\ comp' = NoCall
    /\ UNCHANGED <<net, nimprove, hk>>

Next ==
    \/ SetNewLocIdxs
    \/ GetReducedTree
    \/ CalcImpedanceMatrix
    \/ CalcIZMatrix
    \/ CalcIZ
    \/ CalcTotalImpedance
    \/ CalcTotalKernel
    \/ Done

Spec == Init /\ [][Next]_vars

\* amplitude correction, then the queries that read the corrected tree
NextImprove ==
    \/ SetNewLocIdxs
    \/ ImproveInputResistance
    \/ GetReducedTree
    \/ CalcImpedanceMatrix
    \/ Done

SpecImprove == Init /\ [][NextImprove]_vars

\* compartmentalization, call after call, of one tree
NextComp ==
    \/ CalcCompartmentalization
    \/ RemoveNonCompartments
    \/ SetCompartmentsLeafbased
    \/ Done

SpecComp == InitOn(CompTrees) /\ [][NextComp]_vars

\* ------------------------------------------------- kernel objects (sharing)
\* A kernel object is named by the tree and the node that holds it:
\* <<"self", n>> for node n of the caller's tree, <<"new", m>> for node m of
\* a tree that get_reduced_tree builds.

\* Kernel.__init__ from a Kernel: a and c are deep copies, so the arrays are
\* those of the object under construction, not those of the argument
KernelInit_SameArrays(kernel, new) == kernel
KernelInit(kernel, new) == new

\* the nodes of self that _construct_reduced_tree folds into node m of the
\* reduced tree new_tree: those that keep exactly the locations of m
SourceNodes(self, loc_idxs, new_tree, m) ==
    {n \in DOMAIN self :
        {l \in loc_idxs : l \in Range(self[n].loc_idxs)} = Range(new_tree[m].loc_idxs)}

\* the kernel object whose arrays node m of the reduced tree holds, set by
\* NETNode.set_z_kernel (self._z_kernel = Kernel(z_kernel)): the
\* constructor's argument is the kernel of the topmost source node; a node
\* that `z_kernel +=` was applied to holds the arrays of a sum
KernelObjects(self, loc_idxs, new_tree) ==
    [m \in DOMAIN new_tree |->
        LET src == SourceNodes(self, loc_idxs, new_tree, m)
            top == CHOOSE n \in src : self[n].parent_node \notin src
        IN  IF Cardinality(src) = 1
            THEN KernelInit(<<"self", top>>, <<"new", m>>)
            ELSE KernelInit(<<"sum", m>>, <<"new", m>>)]

\* the factors by which a caller scales the amplitudes of a kernel
ScaleFactors == {R(2), R(3)}

\* node.z_kernel.c *= f_z on node m of the reduced tree the caller holds:
\* every node that holds the same arrays sees the change
ScaleReduced ==
    /\ ret.op = "get_reduced_tree"
    /\ ret.val # NoTree
    /\ comp.pc = "idle"
    /\ \E m \in DOMAIN ret.val, f_z \in ScaleFactors :
        LET objs == KernelObjects(net, ret.arg, ret.val)
        IN  /\ ret' = Return("scale_reduced", <<ret.arg, m, f_z>>,
                        Ok([k \in DOMAIN ret.val |->
                            IF objs[k] = objs[m]
                            THEN [ret.val[k] EXCEPT !.z_kernel = ScaleKernel(@, f_z)]
                            ELSE ret.val[k]]))
            /\ net' = [n \in DOMAIN net |->
                            IF objs[m] = <<"self", n>>
                            THEN [net[n] EXCEPT !.z_kernel = ScaleKernel(@, f_z)]
                            ELSE net[n]]
    /\ UNCHANGED <<nimprove, compvars>>

\* the trees of the frame specification: those of CompTrees of at most
\* MaxNodes nodes
FrameTrees == {t \in CompTrees : Cardinality(DOMAIN t) <= MaxNodes}

\* reduction and compartmentalization of one tree, and the caller's changes
\* to a reduced tree
NextFrame ==
    \/ GetReducedTree
    \/ ScaleReduced
    \/ CalcCompartmentalization
    \/ RemoveNonCompartments
    \/ SetCompartmentsLeafbased
    \/ Done

SpecFrame == InitOn(FrameTrees) /\ [][NextFrame]_vars

\* ------------------------------------------------- conductance rescale sweep
\* the update of _sweep that leaves the shunt factors as they are
RescaleAt_Unchanged(self, node, sfs, gs) == sfs

\* the update of _sweep at a node (lines 709-710): the shunt factors at the
\* node's locations are divided by 1 + z_bar * sum(sfs * gs) over them
RescaleAt(self, node, sfs, gs) ==
    LET locs == self[node].loc_idxs
        denom == RAdd(R(1), RMul(z_bar(self[node]),
                    SumSeq([k \in DOMAIN locs |-> RMul(sfs[locs[k]], gs[locs[k]])])))
    IN  [i \in DOMAIN sfs |->
            IF i \in Range(locs) THEN RDiv(sfs[i], denom) ELSE sfs[i]]

\* NET._sweep; st is [counter, sfs, updated]: node.counter of every node, the
\* array of shunt factors, indexed by location index like gs, and the nodes
\* at which the update has been made, in that order.  The result is the
\* state in which the recursion ends, with the leafs not yet taken.
RECURSIVE sweep(_, _, _, _, _)
sweep(self, node, leafs, st, gs) ==
    LET counter == [st.counter EXCEPT ![node] = @ + 1]
    IN  IF counter[node] >= Len(self[node].child_nodes)
        THEN IF ~is_root(self, node)
             THEN sweep(self, self[node].parent_node, leafs,
                        [counter |-> counter,
                         sfs |-> RescaleAt(self, node, st.sfs, gs),
                         updated |-> Append(st.updated, node)], gs)
             ELSE [err |-> "", counter |-> counter, sfs |-> st.sfs,
                   updated |-> st.updated, leafs |-> leafs]
        ELSE IF leafs = <<>>
             THEN [err |-> "IndexError", counter |-> counter, sfs |-> st.sfs,
                   updated |-> st.updated, leafs |-> leafs]
             ELSE sweep(self, Head(leafs), Tail(leafs),
                        [counter |-> counter, sfs |-> st.sfs,
                         updated |-> st.updated], gs)

\* the call of _sweep in compute_cond_rescale (lines 694-697): every counter
\* is 0, the sweep starts at the first leaf with the array sfs
SweepFrom(self, gs, sfs) ==
    sweep(self, Head(leafs_of(self)), Tail(leafs_of(self)),
          [counter |-> [n \in DOMAIN self |-> 0], sfs |-> sfs, updated |-> <<>>], gs)

\* the end of compute_cond_rescale (lines 698-702): the counters are set to
\* 0 and the array is returned; an exception of the sweep leaves the counters
CondRescaleEnd(out) ==
    IF out.err # "" THEN [err |-> out.err, val |-> <<>>, counter |-> out.counter]
    ELSE [err |-> "", val |-> out.sfs, counter |-> [n \in DOMAIN out.counter |-> 0]]

\* compute_cond_rescale that starts from np.zeros_like(gs)
compute_cond_rescale_ZerosLike(self, gs) ==
    IF Cardinality(DOMAIN gs) # Len(Root(self).loc_idxs)
    THEN Raise("AssertionError")
    ELSE LET end == CondRescaleEnd(SweepFrom(self, gs, [i \in DOMAIN gs |-> R(0)]))
         IN  [err |-> end.err, val |-> end.val]

\* NET.compute_cond_rescale(gs); gs is an array of floats, gs[i] the
\* conductance at location index i
compute_cond_rescale(self, gs) ==
    IF Cardinality(DOMAIN gs) # Len(Root(self).loc_idxs)
    THEN Raise("AssertionError")
    ELSE LET end == CondRescaleEnd(SweepFrom(self, gs, [i \in DOMAIN gs |-> R(1)]))
         IN  [err |-> end.err, val |-> end.val]

\* the conductances a caller passes: 0 or 1 uS at every index of an array of
\* one to NLoc entries
GValues == {R(0), R(1)}
GsChoices == UNION {[0 .. n - 1 -> GValues] : n \in 1 .. NLoc}

ComputeCondRescale ==
    /\ Ready
    /\ \E gs \in GsChoices :
        ret' = Return("compute_cond_rescale", gs, compute_cond_rescale(net, gs))
    /\ UNCHANGED <<net, nimprove, compvars>>

\* the rescale sweep on a tree, before and after an amplitude correction
NextRescale ==
    \/ SetNewLocIdxs
    \/ ImproveInputResistance
    \/ ComputeCondRescale
    \/ Done

SpecRescale == Init /\ [][NextRescale]_vars

\* -------------------------------------------------- Kernel and NETNode access
\* a subtraction that concatenates the amplitudes as they are
KernelSub_NoNegate(self, kernel) ==
    IF Len(kernel.a) = Len(self.a) /\ AllClose(kernel.a, self.a)
    THEN Kernel(self.a, [i \in DOMAIN self.c |-> RSub(self.c[i], kernel.c[i])])
    ELSE Kernel(self.a \o kernel.a, self.c \o kernel.c)

\* Kernel.__sub__
KernelSub(self, kernel) ==
    IF Len(kernel.a) = Len(self.a) /\ AllClose(kernel.a, self.a)
    THEN Kernel(self.a, [i \in DOMAIN self.c |-> RSub(self.c[i], kernel.c[i])])
    ELSE Kernel(self.a \o kernel.a,
                self.c \o [i \in DOMAIN kernel.c |-> RNeg(kernel.c[i])])

\* a key of Kernel.__getitem__: an int or a str
IntKey(n) == [type |-> "int", int |-> n, str |-> ""]
StrKey(s) == [type |-> "str", int |-> 0, str |-> s]

\* __getitem__ that takes 'alphas' for the amplitudes and 'gammas' for the rates
getitem_Swapped(self, ind) ==
    IF ind \in {IntKey(0), StrKey("a"), StrKey("gammas")} THEN Ok(self.a)
    ELSE IF ind \in {IntKey(1), StrKey("c"), StrKey("alphas")} THEN Ok(self.c)
    ELSE Raise("IndexError")

\* Kernel.__getitem__
getitem(self, ind) ==
    IF ind = IntKey(0) THEN Ok(self.a)
    ELSE IF ind = IntKey(1) THEN Ok(self.c)
    ELSE IF ind = StrKey("a") THEN Ok(self.a)
    ELSE IF ind = StrKey("c") THEN Ok(self.c)
    ELSE IF ind = StrKey("alphas") THEN Ok(self.a)
    ELSE IF ind = StrKey("gammas") THEN Ok(self.c)
    ELSE Raise("IndexError")

\* a k_bar setter that scales the amplitudes to reach kk
set_k_bar_Scale(self, kk) ==
    [err |-> "", msg |-> "", kernel |-> ScaleKernel(self, RDiv(kk, k_bar(self)))]

\* Kernel.set_k_bar: the setter of the property k_bar; err and msg are the
\* exception and its text (written here without the backquotes around
\* k_bar and c), kernel is self after the assignment
set_k_bar(self, kk) ==
    [err |-> "AttributeError",
     msg |-> "k_bar is a read-only attribute, adjust attribute c by multiplying with a factor to change k_bar",
     kernel |-> self]

\* NETNode.set_z_kernel, the setter of the properties z_kernel and z_bar:
\* self._z_kernel = Kernel(z_kernel)
set_z_kernel(self, z_kernel) == [self EXCEPT !.z_kernel = Kernel(z_kernel.a, z_kernel.c)]

\* the kernels a caller works with: one or two modes of rate 1 or 2 kHz (in
\* either order, or twice the same rate) and amplitude 1 or 3
KernelRates == {<<R(1)>>, <<R(2)>>, <<R(1), R(2)>>, <<R(2), R(1)>>, <<R(1), R(1)>>}
KernelInputs ==
    UNION {{Kernel(a, c) : c \in [DOMAIN a -> {R(1), R(3)}]} : a \in KernelRates}

\* the keys a caller indexes a Kernel with
Keys == {IntKey(n) : n \in -1 .. 2} \cup
        {StrKey(s) : s \in {"a", "c", "alphas", "gammas", "k_bar", "0", ""}}

\* the floats a caller assigns
AssignedValues == {R(3), R(4)}

\* node.z_kernel[ind]
KernelGetItem ==
    /\ Ready
    /\ \E node \in DOMAIN net, ind \in Keys :
        ret' = Return("__getitem__", <<node, ind>>, getitem(net[node].z_kernel, ind))
    /\ UNCHANGED <<net, nimprove, compvars>>

\* node.z_kernel.k_bar = kk
KernelSetKBar ==
    /\ Ready
    /\ \E node \in DOMAIN net, kk \in AssignedValues :
        LET out == set_k_bar(net[node].z_kernel, kk)
        IN  /\ ret' = Return("set_k_bar", <<node, kk>>, [err |-> out.err, val |-> out.msg])
            /\ net' = [net EXCEPT ![node].z_kernel = out.kernel]
    /\ UNCHANGED <<nimprove, compvars>>

\* node.z_bar = value, value a float: Kernel(value) is the kernel handed to
\* the setter's Kernel.__init__
NodeSetZBar ==
    /\ Ready
    /\ \E node \in DOMAIN net, value \in AssignedValues :
        /\ net' = [net EXCEPT ![node] = set_z_kernel(@, KernelOfScalar(value))]
        /\ ret' = Return("set_z_bar", <<node, value>>, Ok(<<>>))
    /\ UNCHANGED <<nimprove, compvars>>

\* node.z_kernel + kernel
KernelAddTo ==
    /\ Ready
    /\ \E node \in DOMAIN net, kernel \in KernelInputs :
        ret' = Return("__add__", <<node, kernel>>, Ok(KernelAdd(net[node].z_kernel, kernel)))
    /\ UNCHANGED <<net, nimprove, compvars>>

\* node.z_kernel - kernel
KernelSubFrom ==
    /\ Ready
    /\ \E node \in DOMAIN net, kernel \in KernelInputs :
        ret' = Return("__sub__", <<node, kernel>>, Ok(KernelSub(net[node].z_kernel, kernel)))
    /\ UNCHANGED <<net, nimprove, compvars>>

\* the trees of the kernel specification: one node that holds the kernel
KernelTrees == {TreeOf(NETNode(0, <<0>>, <<>>, k)) : k \in KernelInputs}

\* the operations on the kernel and the steady-state value of a node
NextKernel ==
    \/ KernelGetItem
    \/ KernelSetKBar
    \/ NodeSetZBar
    \/ KernelAddTo
    \/ KernelSubFrom
    \/ Done

SpecKernel == InitOn(KernelTrees) /\ [][NextKernel]_vars

\* ------------------------------------------------ the result of an operation
\* the two array objects a Kernel holds, named by the object that holds them
ArraysOf(k) == [a |-> <<k, "a">>, c |-> <<k, "c">>]

\* a result that holds the arrays of the left operand
ResultArrays_OfSelf(self, kernel) == ArraysOf(self)

\* the arrays of the Kernel that __add__ and __sub__ return: a is
\* copy.copy(self.a) or a concatenation, c a sum, a difference or a
\* concatenation, each a new array, and Kernel((a, c)) deep-copies both
ResultArrays(self, kernel) == ArraysOf("new")

\* array[:] *= f on one array of a kernel
ScaleArray(k, attr, f) ==
    IF attr = "a" THEN Kernel([i \in DOMAIN k.a |-> RMul(f, k.a[i])], k.c)
    ELSE Kernel(k.a, [i \in DOMAIN k.c |-> RMul(f, k.c[i])])

\* the caller changes the rates or the amplitudes of a returned result in
\* place; every kernel that holds the changed array changes with it. arg
\* keeps the node of the left operand, the right operand as it is now, the
\* operation and the change
ChangeResult ==
    /\ ret.op \in {"__add__", "__sub__"}
    /\ comp.pc = "idle"
    /\ \E attr \in {"a", "c"}, f \in ScaleFactors :
        LET node == ret.arg[1]
            arr == ResultArrays("self", "kernel")[attr]
            After(k, name) == IF arr = ArraysOf(name)[attr]
                              THEN ScaleArray(k, attr, f) ELSE k
        IN  /\ net' = [net EXCEPT ![node].z_kernel = After(@, "self")]
            /\ ret' = Return("change_result",
                             <<node, After(ret.arg[2], "kernel"), ret.op, attr, f>>,
                             Ok(After(ret.val, "new")))
    /\ UNCHANGED <<nimprove, compvars>>

\* kernel arithmetic and the caller's later changes to a result
NextArith ==
    \/ KernelAddTo
    \/ KernelSubFrom
    \/ ChangeResult
    \/ Done

SpecArith == InitOn(KernelTrees) /\ [][NextArith]_vars

\* ------------------------------------------------- construction, evaluation
\* np.exp at the one argument the model evaluates exactly: e^0 = 1
Exp(x) == CASE x = R(0) -> R(1)

\* an evaluation that leaves out the amplitudes
KernelCall_NoAmplitudes(self, t_arr) ==
    [j \in DOMAIN t_arr |->
        SumSeq([i \in DOMAIN self.a |-> Exp(RNeg(RMul(t_arr[j], self.a[i])))])]

\* Kernel.__call__(t_arr), t_arr a numpy array of time points: one value
\* sum_i exp(-t a_i) c_i per time point
KernelCall(self, t_arr) ==
    [j \in DOMAIN t_arr |->
        SumSeq([i \in DOMAIN self.a |->
                    RMul(Exp(RNeg(RMul(t_arr[j], self.a[i]))), self.c[i])])]

\* the scalars a caller builds a Kernel from (floats and ints alike: an int
\* is cast to float) and the arrays of time points: t = 0 once or twice
ScalarValues == {R(0), R(1), R(5), R(-2), <<1, 2>>}
TimeArrays == {<<R(0)>>, <<R(0), R(0)>>}

\* Kernel(v) for a scalar v
KernelConstruct ==
    /\ Ready
    /\ \E v \in ScalarValues : ret' = Return("Kernel", v, Ok(KernelOfScalar(v)))
    /\ UNCHANGED <<net, nimprove, compvars>>

\* node.z_kernel.k_bar
KernelGetKBar ==
    /\ Ready
    /\ \E node \in DOMAIN net :
        ret' = Return("k_bar", node, Ok(k_bar(net[node].z_kernel)))
    /\ UNCHANGED <<net, nimprove, compvars>>

\* node.z_kernel(t_arr)
KernelEvaluate ==
    /\ Ready
    /\ \E node \in DOMAIN net, t_arr \in TimeArrays :
        ret' = Return("__call__", <<node, t_arr>>, Ok(KernelCall(net[node].z_kernel, t_arr)))
    /\ UNCHANGED <<net, nimprove, compvars>>

\* the argument of Kernel.__init__ by its Python type: None, a float or an
\* int (v), a Kernel with arrays a and c, or a pair (a, c)
NoneArg == [kind |-> "None", v |-> R(0), a |-> <<>>, c |-> <<>>]
ScalarArg(v) == [kind |-> "scalar", v |-> v, a |-> <<>>, c |-> <<>>]
KernelArg(k) == [kind |-> "Kernel", v |-> R(0), a |-> k.a, c |-> k.c]
PairArg(a, c) == [kind |-> "pair", v |-> R(0), a |-> a, c |-> c]

\* Kernel.__init__(kernel): the isinstance tests in their order; the last
\* branch reads kernel[0] and kernel[1], which None does not support
KernelOf(kernel) ==
    IF kernel.kind = "scalar" THEN Ok(KernelOfScalar(kernel.v))
    ELSE IF kernel.kind = "Kernel" THEN Ok(Kernel(kernel.a, kernel.c))
    ELSE IF kernel.kind = "pair" THEN Ok(Kernel(kernel.a, kernel.c))
    ELSE Raise("TypeError")

\* NETNode.__init__(index, loc_idxs, newloc_idxs, z_kernel) with the setter of
\* z_kernel, set_z_kernel: self._z_kernel = Kernel(z_kernel)
NETNodeInit(index, loc_idxs, newloc_idxs, z_kernel) ==
    LET k == KernelOf(z_kernel)
    IN  IF k.err # "" THEN Raise(k.err)
        ELSE Ok(NETNode(index, loc_idxs, newloc_idxs, k.val))

\* NET.create_corresponding_node: NETNode(node_index, []), z_kernel is the
\* default None
create_corresponding_node(node_index) == NETNodeInit(node_index, <<>>, <<>>, NoneArg)

\* the indices a caller asks a node for
NodeIndexChoices == 0 .. MaxNodes

CreateCorrespondingNode ==
    /\ Ready
    /\ \E node_index \in NodeIndexChoices :
        ret' = Return("create_corresponding_node", node_index,
                      create_corresponding_node(node_index))
    /\ UNCHANGED <<net, nimprove, compvars>>

\* NETNode(index, loc_idxs, z_kernel=kernel) for a kernel given as a scalar,
\* as a Kernel or as a pair
CreateNode ==
    /\ Ready
    /\ \E index \in NodeIndexChoices, k \in KernelInputs, v \in ScalarValues :
        \E z_kernel \in {ScalarArg(v), KernelArg(k), PairArg(k.a, k.c)} :
            ret' = Return("NETNode", <<index, z_kernel>>,
                          NETNodeInit(index, <<0>>, <<>>, z_kernel))
    /\ UNCHANGED <<net, nimprove, compvars>>

\* construction of kernels and nodes, steady-state value and evaluation in time
NextEval ==
    \/ KernelConstruct
    \/ CreateNode
    \/ CreateCorrespondingNode
    \/ NodeSetZBar
    \/ KernelGetKBar
    \/ KernelEvaluate
    \/ Done

SpecEval == InitOn(KernelTrees) /\ [][NextEval]_vars

\* ------------------------------------------------------- every operation
\* the operations of NET that a caller mixes on one tree: the new-location
\* bookkeeping, the amplitude correction, reduction, compartmentalization and
\* the rescale sweep, on the trees of up to MaxNodes nodes whose root lists
\* every location
NextAll ==
    \/ SetNewLocIdxs
    \/ ImproveInputResistance
    \/ GetReducedTree
    \/ CalcCompartmentalization
    \/ RemoveNonCompartments
    \/ SetCompartmentsLeafbased
    \/ ComputeCondRescale
    \/ Done

SpecAll == InitOn(FrameTrees) /\ [][NextAll]_vars

\* ======================================================================
\* Properties
\* ======================================================================
\* the sum of z_bar over a set of nodes of a tree
RECURSIVE SumOverNodes(_, _)
SumOverNodes(t, S) ==
    IF S = {} THEN R(0)
    ELSE LET i == CHOOSE x \in S : TRUE
         IN  RAdd(z_bar(t[i]), SumOverNodes(t, S \ {i}))

\* the nodes whose loc_idxs contain both i and j
Covering(t, i, j) ==
    {n \in DOMAIN t : i \in Range(t[n].loc_idxs) /\ j \in Range(t[n].loc_idxs)}
PairSum(t, i, j) == SumOverNodes(t, Covering(t, i, j))

\* the position (0-based) of location l in the root's loc_idxs
PosOf(t, l) == FirstPos(Root(t).loc_idxs, l)
RootLocs(t) == Range(Root(t).loc_idxs)
\* the node and the nodes above it
RECURSIVE Ancestors(_, _)
Ancestors(t, n) ==
    IF t[n].parent_node = NoNode THEN {n} ELSE {n} \cup Ancestors(t, t[n].parent_node)
IsAscending(s) == \A k \in 1 .. Len(s) : s[k] = k - 1
\* calc_i_z has returned for a pair of locations of the tree
IzReturned == ret.op = "calc_i_z" /\ Range(ret.arg) \subseteq RootLocs(net)

\* the literal scenario of the specification: root {0, 1} with z_bar 2 and
\* one child {1} with z_bar 5
IsScenario ==
    /\ DOMAIN net = {0, 1}
    /\ net[0].loc_idxs = <<0, 1>> /\ net[0].child_nodes = <<1>>
    /\ net[1].loc_idxs = <<1>> /\ net[1].parent_node = 0
    /\ z_bar(net[0]) = R(2) /\ z_bar(net[1]) = R(5)

\* C1: calc_impedance_matrix() returns an n-by-n matrix (n the number of
\* root locations) whose entry at the positions of locations i and j in
\* root.loc_idxs is the sum of z_bar over exactly the nodes whose loc_idxs
\* contain both i and j; the matrix is symmetric.
C1_ImpedanceMatrix ==
    ret.op = "calc_impedance_matrix" =>
        LET n == Len(Root(net).loc_idxs)
        IN  /\ ret.err = ""
            /\ DOMAIN ret.val = (0 .. n - 1) \X (0 .. n - 1)
            /\ \A i \in RootLocs(net), j \in RootLocs(net) :
                ret.val[<<PosOf(net, i), PosOf(net, j)>>] = PairSum(net, i, j)
            /\ \A p \in DOMAIN ret.val : ret.val[p] = ret.val[<<p[2], p[1]>>]

\* C1 witness: the matrix of a three-node tree whose root lists its
\* locations in descending order, with entries that differ
C1_Witness ==
    /\ ret.op = "calc_impedance_matrix"
    /\ Cardinality(DOMAIN net) = 3
    /\ Root(net).loc_idxs = <<2, 1, 0>>
    /\ ret.val[<<0, 0>>] # ret.val[<<2, 2>>]
    /\ ret.val[<<0, 1>>] # ret.val[<<0, 2>>]

\* C2: get_reduced_tree preserves the additive invariant: for all i, j among
\* the requested locations of the tree, the sum of z_bar over the nodes of
\* the reduced tree that contain i and j equals that sum in the tree.
C2_ReductionPreservesSums ==
    (ret.op = "get_reduced_tree" /\ ret.val # NoTree) =>
        \A i \in ret.arg \cap RootLocs(net), j \in ret.arg \cap RootLocs(net) :
            PairSum(ret.val, i, j) = PairSum(net, i, j)

\* C2 witness: a reduction that merged a node into its parent and kept
\* another as a node of its own
C2_Witness ==
    /\ ret.op = "get_reduced_tree" /\ ret.val # NoTree
    /\ Cardinality(DOMAIN net) = 3
    /\ Cardinality(DOMAIN ret.val) = 2
    /\ Root(ret.val).z_kernel # Root(net).z_kernel
    /\ Cardinality(ret.arg \cap RootLocs(net)) = 2

\* C3 as stated: reducing on all locations gives a tree whose impedance
\* matrix equals that of the tree entry for entry.
C3_Original ==
    (ret.op = "get_reduced_tree" /\ ret.arg = RootLocs(net)) =>
        calc_impedance_matrix(ret.val) = calc_impedance_matrix(net)

\* C3 amended: reducing on all locations gives a tree whose impedance matrix
\* equals that of the tree location for location (the entry at the positions
\* of i and j in the reduced root's loc_idxs is the entry at their positions
\* in root.loc_idxs), hence entry for entry when both roots list the
\* locations in the same order.
C3_ReductionIdempotent ==
    (ret.op = "get_reduced_tree" /\ ret.arg = RootLocs(net)) =>
        LET zr == calc_impedance_matrix(ret.val)
            zn == calc_impedance_matrix(net)
        IN  /\ zr.err = "" /\ zn.err = ""
            /\ DOMAIN zr.val = DOMAIN zn.val
            /\ \A i \in RootLocs(net), j \in RootLocs(net) :
                zr.val[<<PosOf(ret.val, i), PosOf(ret.val, j)>>]
                    = zn.val[<<PosOf(net, i), PosOf(net, j)>>]
            /\ Root(ret.val).loc_idxs = Root(net).loc_idxs => zr = zn

\* C3 witness: a full reduction of a three-node tree with a descending root
\* list, in which a node was merged away
C3_Witness ==
    /\ ret.op = "get_reduced_tree" /\ ret.arg = RootLocs(net)
    /\ Cardinality(DOMAIN net) = 3
    /\ Cardinality(DOMAIN ret.val) = 2
    /\ Root(net).loc_idxs = <<2, 1, 0>>

\* every node's newloc_idxs is its loc_idxs minus its children's, the
\* newloc_idxs are pairwise disjoint and cover the root's loc_idxs
NewLocPartition(t) ==
    /\ \A n \in DOMAIN t :
        /\ Range(t[n].newloc_idxs) = Range(t[n].loc_idxs) \ ChildLocs(t, n)
        /\ Cardinality(Range(t[n].newloc_idxs)) = Len(t[n].newloc_idxs)
    /\ \A n \in DOMAIN t, m \in DOMAIN t :
        n # m => Range(t[n].newloc_idxs) \cap Range(t[m].newloc_idxs) = {}
    /\ UNION {Range(t[n].newloc_idxs) : n \in DOMAIN t} = RootLocs(t)

\* C4: after set_new_loc_idxs (called on the tree, at the end of
\* get_reduced_tree on the reduced tree, at the end of
\* improve_input_resistance on the corrected tree) the newloc_idxs partition
\* the root's locations.
C4_TreePartition ==
    /\ ret.op \in {"set_new_loc_idxs", "improve_input_resistance"} => NewLocPartition(net)
    /\ (ret.op = "get_reduced_tree" /\ ret.val # NoTree) => NewLocPartition(ret.val)

\* C4 witness: improve_input_resistance has inserted leaves under a node with
\* children, and the partition was recomputed
C4_Witness ==
    /\ ret.op = "improve_input_resistance"
    /\ Cardinality(DOMAIN net) > MaxNodes
    /\ \E n \in DOMAIN net : Len(net[n].child_nodes) >= 3

\* the quantities of the segregation index read off the two-location
\* reduced tree: the root's z_bar, and the z_bar of the node that has the
\* location among its new locations (0 if that node is the root)
RedOfPair(i, j) == get_reduced_tree(net, {i, j})
ZCommon(i, j) == z_bar(Root(RedOfPair(i, j)))
ZIntro(i, j, l) ==
    LET red == RedOfPair(i, j)
        n == CHOOSE x \in DOMAIN red : l \in Range(red[x].newloc_idxs)
    IN  IF red[n].parent_node = NoNode THEN R(0) ELSE z_bar(red[n])

\* C5 as stated: for locations i, j of the tree calc_i_z([i, j]) is (z_i + z_j) / (2 z_common) - 1, and 0.25
\* in the scenario.
C5_Original ==
    IzReturned =>
        LET i == ret.arg[1]
            j == ret.arg[2]
        IN  /\ ret.err = ""
            /\ ret.val = RSub(RDiv(RAdd(ZIntro(i, j, i), ZIntro(i, j, j)),
                                   RMul(R(2), ZCommon(i, j))), R(1))
            /\ (IsScenario /\ i # j) => ret.val = <<1, 4>>

\* C5 amended: for locations i, j of the tree calc_i_z([i, j]) is (z_i + z_j) / (2 z_common), without the
\* "- 1", and 1.25 in the scenario.
C5_SegregationIndex ==
    IzReturned =>
        LET i == ret.arg[1]
            j == ret.arg[2]
        IN  /\ ret.err = ""
            /\ ret.val = RDiv(RAdd(ZIntro(i, j, i), ZIntro(i, j, j)),
                              RMul(R(2), ZCommon(i, j)))
            /\ (IsScenario /\ i # j) => ret.val = <<5, 4>>

\* C5 witness: calc_i_z([0, 1]) has returned in the scenario
C5_Witness == ret.op = "calc_i_z" /\ IsScenario /\ ret.arg = <<0, 1>>

C7_Original ==
    ret.op = "calc_total_impedance" =>
        LET node == ret.arg
            Z == calc_impedance_matrix(net).val
        IN  /\ ret.val = SumOverNodes(net, Ancestors(net, node))
            /\ ret.val = k_bar(calc_total_kernel(net, node))
            /\ \A i \in Range(net[node].newloc_idxs) : ret.val = Z[<<i, i>>]
            /\ (IsScenario /\ node = 1) => (ret.val = R(7) /\ ret.val = Z[<<1, 1>>])

\* C7 amended: calc_total_impedance(node) is the sum of z_bar over the node
\* and its ancestors, equals calc_total_kernel(node).k_bar, and for a node
\* with location i among its newloc_idxs equals the diagonal entry of
\* calc_impedance_matrix() at the position of i in root.loc_idxs (Z[i,i] when
\* the root lists the locations 0 .. n - 1 in order); 7 = Z[1,1] in the scenario.
C7_TotalImpedance ==
    ret.op = "calc_total_impedance" =>
        LET node == ret.arg
            Z == calc_impedance_matrix(net).val
        IN  /\ ret.val = SumOverNodes(net, Ancestors(net, node))
            /\ ret.val = k_bar(calc_total_kernel(net, node))
            /\ \A i \in Range(net[node].newloc_idxs) :
                /\ ret.val = Z[<<PosOf(net, i), PosOf(net, i)>>]
                /\ IsAscending(Root(net).loc_idxs) => ret.val = Z[<<i, i>>]
            /\ (IsScenario /\ node = 1) => (ret.val = R(7) /\ ret.val = Z[<<1, 1>>])

\* C7 witness: the total impedance of a grandchild of the root that has a
\* new location, in a tree whose newloc_idxs are set
C7_Witness ==
    /\ ret.op = "calc_total_impedance"
    /\ Cardinality(Ancestors(net, ret.arg)) = 3
    /\ net[ret.arg].newloc_idxs # <<>>

\* ------------------------------------------------- compartmentalization
\* calc_compartmentalization has returned compartments as node indices
CompReturned ==
    ret.op = "calc_compartmentalization" /\ ret.err = "" /\ ret.arg[2] = "node index"

\* the locations of a compartment: the loc_idxs of its member nodes
CompLocs(c) == UNION {Range(net[n].loc_idxs) : n \in Range(c)}

\* the compartments calc_compartmentalization can return for the thresholds
\* above the one of the call that has returned
LaterResults ==
    {r \in UNION {calc_compartmentalization(net, Iz2, "node index") :
                    Iz2 \in {x \in IzChoices : RLt(ret.arg[1], x)}} : r.err = ""}

\* the compartments of c2s that have a location in common with c
Meets(c, c2s) == {k \in DOMAIN c2s : CompLocs(c) \cap CompLocs(c2s[k]) # {}}

\* C8: any two locations that calc_compartmentalization(Iz) places in
\* different output compartments have a segregation index calc_i_z of at
\* least Iz.
C8_CompartmentsSegregated ==
    CompReturned =>
        \A k1 \in DOMAIN ret.val, k2 \in DOMAIN ret.val :
            k1 # k2 =>
                \A i \in CompLocs(ret.val[k1]), j \in CompLocs(ret.val[k2]) :
                    LET Iz_ij == calc_i_z(net, <<i, j>>)
                    IN  Iz_ij.err = "" /\ RLe(ret.arg[1], Iz_ij.val)

\* C8 witness: three compartments returned for a tree of four nodes
C8_Witness ==
    /\ CompReturned
    /\ Len(ret.val) = 3
    /\ Cardinality(DOMAIN net) = 4

\* C9 as stated: the location sets of the output compartments are pairwise
\* disjoint, their union is the root's loc_idxs, and every leaf remaining in
\* the pruned copy yields exactly one output compartment.
C9_Original ==
    CompReturned =>
        /\ \A k1 \in DOMAIN ret.val, k2 \in DOMAIN ret.val :
                k1 # k2 => CompLocs(ret.val[k1]) \cap CompLocs(ret.val[k2]) = {}
        /\ UNION {CompLocs(ret.val[k]) : k \in DOMAIN ret.val} = RootLocs(net)
        /\ Len(ret.val) = Len(leafs_of(comp.net))

\* C9 amended: when calc_compartmentalization(Iz) returns, the location
\* sets of the output compartments are pairwise disjoint and lie in the
\* root's loc_idxs, every compartment is one node that is on the line from
\* a leaf remaining in the pruned copy up to the root, and every remaining
\* leaf yields at most one compartment; locations may be in no compartment.
C9_CompartmentsDisjoint ==
    CompReturned =>
        /\ \A k1 \in DOMAIN ret.val, k2 \in DOMAIN ret.val :
                k1 # k2 => CompLocs(ret.val[k1]) \cap CompLocs(ret.val[k2]) = {}
        /\ UNION {CompLocs(ret.val[k]) : k \in DOMAIN ret.val} \subseteq RootLocs(net)
        /\ \A k \in DOMAIN ret.val :
                /\ Len(ret.val[k]) = 1
                /\ \E leaf \in Range(leafs_of(comp.net)) :
                        ret.val[k][1] \in Ancestors(comp.net, leaf)
        /\ \A leaf \in Range(leafs_of(comp.net)) :
                Cardinality({k \in DOMAIN ret.val :
                    ret.val[k][1] \in Ancestors(comp.net, leaf)}) <= 1
        /\ Len(ret.val) <= Len(leafs_of(comp.net))

\* C9 witness: two compartments, of the two leaves remaining in the pruned
\* copy of a tree of four nodes, that leave a location of the root out
C9_Witness ==
    /\ CompReturned
    /\ Cardinality(DOMAIN net) = 4
    /\ Len(ret.val) = 2
    /\ Len(leafs_of(comp.net)) = 2
    /\ UNION {CompLocs(ret.val[k]) : k \in DOMAIN ret.val} # RootLocs(net)

\* C10 as stated: for Iz1 < Iz2 every Iz1-compartment is fully contained in
\* exactly one Iz2-compartment.
C10_Original ==
    CompReturned =>
        \A r2 \in LaterResults :
            \A k1 \in DOMAIN ret.val :
                Cardinality({k2 \in DOMAIN r2.val :
                    CompLocs(ret.val[k1]) \subseteq CompLocs(r2.val[k2])}) = 1

\* C10 amended: for Iz1 < Iz2 the compartments returned for Iz2 are no more
\* than those returned for Iz1, and every Iz1-compartment has locations in
\* common with at most one Iz2-compartment.
C10_Monotonicity ==
    CompReturned =>
        \A r2 \in LaterResults :
            /\ Len(r2.val) <= Len(ret.val)
            /\ \A k1 \in DOMAIN ret.val : Cardinality(Meets(ret.val[k1], r2.val)) <= 1

\* C10 witness: compartments returned for Iz1, and for a larger Iz2 fewer
\* compartments, one of them inside an Iz1-compartment
C10_Witness ==
    /\ CompReturned
    /\ \E r2 \in LaterResults :
        /\ r2.val # <<>>
        /\ Len(r2.val) < Len(ret.val)
        /\ \E k1 \in DOMAIN ret.val, k2 \in DOMAIN r2.val :
                /\ CompLocs(r2.val[k2]) \subseteq CompLocs(ret.val[k1])
                /\ CompLocs(r2.val[k2]) # CompLocs(ret.val[k1])

\* ------------------------------------------------------ output form (C11)
\* calc_compartmentalization has gone through the pruning and has come to
\* its return statement, asked for node objects
NodeFormReturned ==
    /\ ret.op = "calc_compartmentalization"
    /\ comp.pc = "returned"
    /\ ret.arg[2] = "node"

\* what the call that has returned gives with returntype = 'node index'
AsNodeIndex ==
    CompartmentsOf(set_compartments_leafbased(leafs_of(comp.net), comp.net, hk),
                   hk, "node index")

\* C11 as stated: with returntype = 'node' calc_compartmentalization returns,
\* without error, the compartments it returns with returntype = 'node
\* index', each node index replaced by the node of the caller's tree that
\* has that index.
C11_Original ==
    NodeFormReturned =>
        /\ ret.err = ""
        /\ ret.val = [k \in DOMAIN AsNodeIndex.val |->
                        [j \in DOMAIN AsNodeIndex.val[k] |-> net[AsNodeIndex.val[k][j]]]]

\* C11 witness: asked for node objects, with a compartment to return, the
\* call ends in an AttributeError
C11_Witness ==
    /\ NodeFormReturned
    /\ AsNodeIndex.val # <<>>
    /\ ret.err = "AttributeError"

\* ------------------------------------------------------ frame (C12)
\* C12: get_reduced_tree and calc_compartmentalization leave the caller's
\* tree as it is (nodes, parent and child links, loc_idxs, newloc_idxs,
\* kernels), and so does a later change of the amplitudes of a kernel of the
\* reduced tree: no step of reduction, compartmentalization or scaling
\* changes the caller's tree.
C12_CallerTreeUnmodified == [][net' = net]_vars

\* C12 witness: the amplitudes of a node of a reduced tree have been scaled,
\* the node being built from one node of the caller's tree, which has kept
\* its z_bar
C12_Witness ==
    /\ ret.op = "scale_reduced"
    /\ LET m == ret.arg[2]
           src == SourceNodes(net, ret.arg[1], ret.val, m)
       IN  /\ Cardinality(src) = 1
           /\ m # 0
           /\ \A n \in src : z_bar(ret.val[m]) = RMul(ret.arg[3], z_bar(net[n]))

\* ------------------------------------------------ housekeeping fields (C13)
\* the nodes of the caller's tree that carry a field written by
\* _set_compartment_data or _set_tentative_compartments
CarriesFields == {n \in DOMAIN net : n \in DOMAIN hk}

\* C13 as stated: once calc_compartmentalization has returned, no node of
\* the caller's tree still carries the housekeeping fields (_z_root,
\* _z_comp, _node_inds, _comps, _root_ind).
C13_Original ==
    (ret.op = "calc_compartmentalization" /\ comp.pc = "returned") => CarriesFields = {}

\* C13 witness: calc_compartmentalization has returned compartments, the
\* caller has dropped them, and a node of the caller's tree still carries a
\* non-empty _node_inds and _comps
C13_Witness ==
    /\ ret = Idle
    /\ comp = NoCall
    /\ \E n \in CarriesFields : hk[n]._node_inds # <<>> /\ hk[n]._comps # <<>>

\* ------------------------------------------------ amplitude correction (C14)
\* improve_input_resistance has returned; ret.arg is the diagonal of z_mat
Improved == ret.op = "improve_input_resistance"

\* C14 as stated: after improve_input_resistance(z_mat) every diagonal entry
\* of the NET's own impedance matrix equals the reference diagonal:
\* calc_impedance_matrix()[i, i] = z_mat[i, i] for every location i.
C14_Original ==
    Improved =>
        LET Z == calc_impedance_matrix(net)
        IN  /\ Z.err = ""
            /\ \A i \in RootLocs(net) : Z.val[<<i, i>>] = ret.arg[i]

\* what improve_input_resistance needs of the tree it is called on:
\* newloc_idxs is up to date, and every node it divides by the z_bar of (a
\* node of one location, a node with new locations) has a z_bar other than 0
Improvable(t) ==
    /\ set_new_loc_idxs(t) = t
    /\ \A n \in DOMAIN t :
        (Len(t[n].loc_idxs) = 1 \/ t[n].newloc_idxs # <<>>) =>
            IsFinite(z_bar(t[n])) /\ z_bar(t[n]) # R(0)

\* C14 amended: when newloc_idxs is up to date and no node of one location
\* or with new locations has z_bar 0, then after improve_input_resistance
\* (z_mat) the diagonal entry of calc_impedance_matrix() at the position of
\* location i in root.loc_idxs equals z_mat[i, i] up to the 1e-7 below which
\* no node is added, for every location i.
C14_DiagonalMatches ==
    [][(ret'.op = "improve_input_resistance" /\ Improvable(net)) =>
        LET Z == calc_impedance_matrix(net')
        IN  /\ Z.err = ""
            /\ \A i \in RootLocs(net') :
                ~AboveTolerance(RSub(Z.val[<<PosOf(net', i), PosOf(net', i)>>],
                                     ret'.arg[i]))]_vars

\* C14 witness: improve_input_resistance has added a node to a tree whose
\* root lists its locations in descending order, for a reference diagonal
\* that differs between locations; the diagonal matches at the positions of
\* the locations and not at their indices
C14_Witness ==
    /\ Improved
    /\ IsAscending(Reverse(Root(net).loc_idxs))
    /\ Cardinality(DOMAIN net) > MaxNodes
    /\ \E n \in DOMAIN net : Len(net[n].z_kernel.a) = 2 /\ net[n].parent_node # NoNode
    /\ LET Z == calc_impedance_matrix(net)
       IN  /\ \A i \in RootLocs(net) :
                Z.val[<<PosOf(net, i), PosOf(net, i)>>] = ret.arg[i]
           /\ \E i \in RootLocs(net) : Z.val[<<i, i>>] # ret.arg[i]

\* ------------------------------------------------ rescale neutrality (C15)
\* compute_cond_rescale has been called with an array of the tree's number
\* of locations that is zero everywhere
ZeroConductances ==
    /\ ret.op = "compute_cond_rescale"
    /\ Cardinality(DOMAIN ret.arg) = Len(Root(net).loc_idxs)
    /\ \A i \in DOMAIN ret.arg : ret.arg[i] = R(0)

\* every kernel of the tree has a finite steady-state value
FiniteKernels == \A n \in DOMAIN net : IsFinite(z_bar(net[n]))

\* C15: for every NET (its kernels having a finite z_bar) compute_cond_rescale
\* called with a conductance array that is zero at every location returns
\* the factor 1.0 for every location.
C15_RescaleNeutrality ==
    (ZeroConductances /\ FiniteKernels) =>
        /\ ret.err = ""
        /\ DOMAIN ret.val = DOMAIN ret.arg
        /\ \A i \in DOMAIN ret.val : ret.val[i] = R(1)

\* C15 witness: zero conductances on a tree of three nodes with two leaves
\* whose amplitudes have been corrected
C15_Witness ==
    /\ ZeroConductances
    /\ FiniteKernels
    /\ nimprove = 1
    /\ Len(leafs_of(net)) = 2
    /\ Cardinality(DOMAIN ret.arg) = NLoc

\* ------------------------------------------------------- Kernel.k_bar (C16)
\* C16: assigning a value to Kernel.k_bar fails with an error that tells the
\* caller to scale the amplitudes c instead, and leaves the rates a and
\* the amplitudes c of the kernel as they were.
C16_KBarReadOnly ==
    [][ret'.op = "set_k_bar" =>
        /\ ret'.err = "AttributeError"
        /\ ret'.val = "k_bar is a read-only attribute, adjust attribute c by multiplying with a factor to change k_bar"
        /\ net'[ret'.arg[1]].z_kernel = net[ret'.arg[1]].z_kernel
        /\ net' = net]_vars

\* C16 witness: a value other than its k_bar has been assigned to the k_bar
\* of a kernel of two modes, and the assignment has failed
C16_Witness ==
    /\ ret.op = "set_k_bar"
    /\ ret.err = "AttributeError"
    /\ Len(net[ret.arg[1]].z_kernel.a) = 2
    /\ k_bar(net[ret.arg[1]].z_kernel) # ret.arg[2]

\* ------------------------------------------------------ NETNode.z_bar (C17)
\* C17 as stated: assigning a value to node.z_bar is rejected with an error
\* and leaves the node's z_kernel (rates and amplitudes) as it was.
C17_Original ==
    [][ret'.op = "set_z_bar" =>
        /\ ret'.err # ""
        /\ net'[ret'.arg[1]].z_kernel = net[ret'.arg[1]].z_kernel]_vars

\* C17 witness: 4. has been assigned to the z_bar of a node; no error was
\* raised and the node's kernel is the one mode a = [1.], c = [4.]
C17_Witness ==
    /\ ret.op = "set_z_bar"
    /\ ret.err = ""
    /\ ret.arg[2] = R(4)
    /\ net[ret.arg[1]].z_kernel = Kernel(<<R(1)>>, <<R(4)>>)

\* --------------------------------------------------- Kernel indexing (C18)
\* the keys of the two structural fields: the rates a and the amplitudes c
KeysOfRates == {IntKey(0), StrKey("a"), StrKey("alphas")}
KeysOfAmplitudes == {IntKey(1), StrKey("c"), StrKey("gammas")}

\* C18: indexing a Kernel with a key of a structural field returns that
\* field (the rates for 0, 'a', 'alphas'; the amplitudes for 1, 'c',
\* 'gammas'); indexing it with any other key fails with an IndexError.
C18_KernelIndexing ==
    ret.op = "__getitem__" =>
        LET self == net[ret.arg[1]].z_kernel
            ind == ret.arg[2]
        IN  IF ind \in KeysOfRates THEN ret.err = "" /\ ret.val = self.a
            ELSE IF ind \in KeysOfAmplitudes THEN ret.err = "" /\ ret.val = self.c
            ELSE ret.err = "IndexError"

\* C18 witness: a kernel of two modes whose rates are not its amplitudes has
\* been indexed with -1, which is the key of no field, and the call has
\* failed with an IndexError
C18_Witness ==
    /\ ret.op = "__getitem__"
    /\ ret.arg[2] = IntKey(-1)
    /\ ret.err = "IndexError"
    /\ Len(net[ret.arg[1]].z_kernel.a) = 2
    /\ net[ret.arg[1]].z_kernel.a # net[ret.arg[1]].z_kernel.c

\* ------------------------------------------------ absent locations (C19)
\* get_reduced_tree has returned for a request that names a location that
\* is not in root.loc_idxs
AbsentRequested ==
    /\ ret.op = "get_reduced_tree"
    /\ ~(ret.arg \subseteq RootLocs(net))

\* C19 as stated: get_reduced_tree(L) with L naming a location that is
\* absent from the tree is an error that is surfaced to the caller.
C19_Original == AbsentRequested => ret.err # ""

\* C19 witness: locations 0 and NLoc were requested of a tree of three
\* nodes that has no location NLoc; no error was raised and the result is
\* the reduced tree for location 0 alone
C19_Witness ==
    /\ AbsentRequested
    /\ ret.arg = {0, NLoc}
    /\ Cardinality(DOMAIN net) = 3
    /\ ret.err = ""
    /\ ret.val = get_reduced_tree(net, {0})
    /\ ret.val # NoTree

\* ------------------------------------------ Kernel add and subtract (C20)
\* k1 + k2 or k1 - k2 has returned: self is k1, the kernel of the node
Combined == ret.op \in {"__add__", "__sub__"}
\* the amplitude of k2 as it enters the result: negated by a subtraction
Signed(x) == IF ret.op = "__sub__" THEN RNeg(x) ELSE x
\* the amplitude a kernel has at rate r: the sum over its modes of rate r
AmpOf(k, r) == SumSeq([i \in DOMAIN k.a |-> IF k.a[i] = r THEN k.c[i] ELSE R(0)])

\* C20 as stated: for two kernels whose rates are the same set, in any
\* order, k1 + k2 (k1 - k2) has exactly one mode per rate, whose amplitude
\* is the sum (difference) of the operands' amplitudes for that rate; the
\* mode lists are concatenated only when the rate sets differ.
C20_Original ==
    Combined =>
        LET self == net[ret.arg[1]].z_kernel
            kernel == ret.arg[2]
        IN  IF Range(self.a) = Range(kernel.a)
            THEN /\ Len(ret.val.a) = Cardinality(Range(self.a))
                 /\ Range(ret.val.a) = Range(self.a)
                 /\ \A i \in DOMAIN ret.val.a :
                        ret.val.c[i] = RAdd(AmpOf(self, ret.val.a[i]),
                                            Signed(AmpOf(kernel, ret.val.a[i])))
            ELSE /\ ret.val.a = self.a \o kernel.a
                 /\ ret.val.c = self.c \o [i \in DOMAIN kernel.c |-> Signed(kernel.c[i])]

\* C20 amended: when k1 and k2 have as many modes and the same rate at
\* every position, k1 + k2 (k1 - k2) has the rates of k1 and at every
\* position the sum (difference) of the two amplitudes; in every other
\* case, the same rates in another order included, it is the modes of k1
\* followed by those of k2 (negated by a subtraction).  In both cases the
\* amplitudes of the result at a rate add up to the sum (difference) of the
\* operands' amplitudes at that rate.
C20_KernelArithmetic ==
    Combined =>
        LET self == net[ret.arg[1]].z_kernel
            kernel == ret.arg[2]
        IN  /\ IF self.a = kernel.a
               THEN /\ ret.val.a = self.a
                    /\ ret.val.c = [i \in DOMAIN self.c |->
                                        RAdd(self.c[i], Signed(kernel.c[i]))]
               ELSE /\ ret.val.a = self.a \o kernel.a
                    /\ ret.val.c = self.c \o [i \in DOMAIN kernel.c |-> Signed(kernel.c[i])]
            /\ \A r \in Range(self.a) \cup Range(kernel.a) :
                    AmpOf(ret.val, r) = RAdd(AmpOf(self, r), Signed(AmpOf(kernel, r)))
            /\ k_bar(ret.val) = RAdd(k_bar(self), Signed(k_bar(kernel)))

\* C20 witness: a kernel of rates [2, 1] has been subtracted from one of
\* rates [1, 2]; the result has the four modes 1, 2, 2, 1
C20_Witness ==
    /\ ret.op = "__sub__"
    /\ net[ret.arg[1]].z_kernel.a = <<R(1), R(2)>>
    /\ ret.arg[2].a = <<R(2), R(1)>>
    /\ ret.val.a = <<R(1), R(2), R(2), R(1)>>
    /\ ret.val.c[3] = RNeg(ret.arg[2].c[1])

\* C21: k1 + k2 and k1 - k2 return a new Kernel and leave both operands as
\* they were: the call changes no kernel of the tree, and when the caller
\* later scales the rates or the amplitudes of the result in place, the left
\* operand (the kernel of the node) and the right operand keep their rates
\* and amplitudes while the result takes the change.
C21_OperandsUntouched ==
    [][/\ ret'.op \in {"__add__", "__sub__"} => net' = net
       /\ ret'.op = "change_result" =>
            /\ net' = net
            /\ ret'.arg[2] = ret.arg[2]
            /\ ret'.val = ScaleArray(ret.val, ret'.arg[4], ret'.arg[5])]_vars

\* a sum of two kernels of equal rates whose rates the caller has doubled
C21_Witness ==
    /\ ret.op = "change_result"
    /\ ret.arg[3] = "__add__"
    /\ ret.arg[4] = "a"
    /\ Len(ret.val.a) = Len(net[ret.arg[1]].z_kernel.a)
    /\ ret.val.a # net[ret.arg[1]].z_kernel.a

\* C22: for a Kernel k, k + k has the rates of k and twice its amplitudes,
\* position by position, and k_bar(k + k) = 2 * k_bar(k).
C22_Doubling ==
    (ret.op = "__add__" /\ ret.arg[2] = net[ret.arg[1]].z_kernel) =>
        LET k == ret.arg[2]
        IN  /\ ret.err = ""
            /\ ret.val.a = k.a
            /\ ret.val.c = [i \in DOMAIN k.c |-> RMul(R(2), k.c[i])]
            /\ k_bar(ret.val) = RMul(R(2), k_bar(k))

\* a kernel of two modes has been added to itself
C22_Witness ==
    /\ ret.op = "__add__"
    /\ ret.arg[2] = net[ret.arg[1]].z_kernel
    /\ Len(ret.arg[2].a) = 2
    /\ ret.arg[2].a[1] # ret.arg[2].a[2]
    /\ Len(ret.val.c) = 2

\* a kernel of one mode with rate 1
SingleUnitMode(k) == Len(k.a) = 1 /\ k.a[1] = R(1)

\* C23: a Kernel built from a single scalar v is one mode with rate 1 and
\* amplitude v; for every kernel with a single mode of rate 1 and amplitude
\* c, k_bar is c and the evaluation at the one time point t = 0 returns c
\* (as the one entry of the returned array).
C23_SteadyStateIdentity ==
    /\ ret.op = "Kernel" => ret.val = Kernel(<<R(1)>>, <<ret.arg>>)
    /\ (ret.op = "k_bar" /\ SingleUnitMode(net[ret.arg].z_kernel)) =>
            ret.err = "" /\ ret.val = net[ret.arg].z_kernel.c[1]
    /\ (/\ ret.op = "__call__"
        /\ ret.arg[2] = <<R(0)>>
        /\ SingleUnitMode(net[ret.arg[1]].z_kernel)) =>
            ret.err = "" /\ ret.val = <<net[ret.arg[1]].z_kernel.c[1]>>

\* a kernel assigned from a scalar (amplitude 4) has been evaluated at t = 0
C23_Witness ==
    /\ ret.op = "__call__"
    /\ ret.arg[2] = <<R(0)>>
    /\ net[ret.arg[1]].z_kernel = KernelOfScalar(R(4))
    /\ ret.val = <<R(4)>>

\* the pruning has more than the root to work on
SeveralNodes == Cardinality(DOMAIN comp.net) > 1

\* a call of _remove_non_compartments that recurses has either shortened the
\* worklist or raised the stall counter, which stays within the worklist
Progress ==
    \/ Len(comp'.leafs) < Len(comp.leafs) /\ comp'.n_count = 0
    \/ /\ Len(comp'.leafs) = Len(comp.leafs)
       /\ comp'.n_count = comp.n_count + 1
       /\ comp'.n_count <= Len(comp'.leafs)

\* a further call on the worklist, from any of its leaves, would remove nothing
NoRemovalApplies ==
    \A k \in DOMAIN comp.leafs :
        LET leafs == SubSeq(comp.leafs, k, Len(comp.leafs)) \o SubSeq(comp.leafs, 1, k - 1)
        IN  \A sis \in sister_leafs(comp.net, Head(leafs)) :
                LET out == remove_non_compartments(comp.net, hk, leafs, 0, sis)
                IN  out.err = "" /\ out.net = comp.net /\ Len(out.leafs) = Len(leafs)

\* C24: the pruning ends after finitely many calls without raising: no call
\* of _remove_non_compartments raises, every call that recurses has made
\* progress (shorter worklist, or the same worklist and a stall counter one
\* higher and within its length), and where the recursion ends no further
\* removal applies.
C24_Original ==
    [][comp.pc = "remove" =>
        /\ comp'.pc # "raised"
        /\ comp'.pc = "remove" => Progress
        /\ comp'.pc = "collect" => NoRemovalApplies']_vars

\* the pruning of a NET of two or more nodes: no call raises, every
\* recursing call has made progress, and the end is a fixed point
C24_SeveralNodes ==
    [][(comp.pc = "remove" /\ SeveralNodes) =>
        /\ comp'.pc # "raised"
        /\ comp'.pc = "remove" => Progress
        /\ comp'.pc = "collect" => NoRemovalApplies']_vars

\* the pruning of a NET that is its root alone has raised
C24_Witness ==
    /\ comp.pc = "raised"
    /\ DOMAIN comp.net = {0}
    /\ comp.leafs = <<0>>
    /\ ret.op = "calc_compartmentalization"
    /\ ret.err = "AttributeError"

\* the siblings (positions in sis.sister_leafs) that qualify as distinct
\* compartments: the common root is among the leaf's candidate roots
Qualifying(sis) ==
    {j \in DOMAIN sis.sister_leafs :
        sis.common_root \in Range(hk[sis.sister_leafs[j]]._node_inds)}

\* the siblings of largest total impedance to the root
Largest(sis) ==
    {j \in DOMAIN sis.sister_leafs :
        \A i \in DOMAIN sis.sister_leafs :
            ~RGt(calc_total_impedance(comp.net, sis.sister_leafs[i]),
                 calc_total_impedance(comp.net, sis.sister_leafs[j]))}

\* the step retains the siblings at the positions kept: the children of the
\* common root that lead to the others are soft-removed, the other leaves
\* dropped from the worklist, and nothing else changes
Retains(sis, kept) ==
    LET gone == DOMAIN sis.sister_leafs \ kept
        cr == sis.common_root
    IN  /\ comp'.net = [comp.net EXCEPT ![cr].child_nodes =
                SelectSeq(@, LAMBDA n :
                    n \notin {sis.corresponding_children[j] : j \in gone})]
        /\ Range(comp'.leafs) = Range(comp.leafs) \ {sis.sister_leafs[j] : j \in gone}
        /\ Len(comp'.leafs) = Len(comp.leafs) - Cardinality(gone)

\* a call of _remove_non_compartments that does not raise, on a sibling
\* group of leaves
PruningStep(sis) ==
    /\ comp.pc = "remove"
    /\ comp'.pc # "raised"
    /\ sis \in sister_leafs(comp.net, Head(comp.leafs))
    /\ Len(sis.sister_leafs) = Len(sis.corresponding_children)

\* C25 as stated: in every pruning step, whichever node the common ancestor
\* is, at most one qualifying sibling means that exactly one sibling, one of
\* largest total impedance, is retained, and several qualifying siblings
\* mean that exactly these are retained.
C25_Original ==
    [][comp.pc = "remove" =>
        \E sis \in sister_leafs(comp.net, Head(comp.leafs)) :
            PruningStep(sis) =>
                IF Cardinality(Qualifying(sis)) <= 1
                THEN \E j \in Largest(sis) : Retains(sis, {j})
                ELSE Retains(sis, Qualifying(sis))]_vars

\* C25: in every pruning step on a sibling group of leaves under their
\* nearest common ancestor: when at most one sibling qualifies and the
\* ancestor is not the root of the tree, exactly one sibling, one of largest
\* total impedance to the root, is retained; when several qualify, or the
\* ancestor is the root of the tree, exactly the qualifying siblings are
\* retained (under the root that can be none, or one that is not the
\* largest). The others are soft-removed and dropped from the worklist.
C25_PruningStep ==
    [][comp.pc = "remove" =>
        \E sis \in sister_leafs(comp.net, Head(comp.leafs)) :
            PruningStep(sis) =>
                IF Cardinality(Qualifying(sis)) <= 1 /\ ~is_root(comp.net, sis.common_root)
                THEN \E j \in Largest(sis) : Retains(sis, {j})
                ELSE Retains(sis, Qualifying(sis))]_vars

\* a step under a common ancestor below the root has left one of two sibling
\* leaves of different total impedance: the worklist is one leaf shorter and
\* the pruned copy has a node with a parent that no longer lists it
C25_Witness ==
    /\ comp.pc \in {"remove", "collect"}
    /\ \E n \in DOMAIN comp.net :
        /\ ~is_root(comp.net, n)
        /\ ~is_root(comp.net, comp.net[n].parent_node)
        /\ n \notin Range(comp.net[comp.net[n].parent_node].child_nodes)
        /\ n \notin Range(comp.leafs)
        /\ \E m \in Range(comp.net[comp.net[n].parent_node].child_nodes) :
            /\ m \in Range(comp.leafs)
            /\ RGt(calc_total_impedance(comp.net, m), calc_total_impedance(comp.net, n))

\* the sum of z_bar over the nodes from n up to, but excluding, its ancestor A
ZBelow(t, n, A) == SumOverNodes(t, Ancestors(t, n) \ Ancestors(t, A))
\* the sum of z_bar over the nodes from A up to the root, both included
ZAbove(t, A) == SumOverNodes(t, Ancestors(t, A))
\* the candidate compartment roots of n for the threshold Iz
CandidateRoots(t, n, Iz) ==
    {A \in Ancestors(t, n) \ {n} : RGt(RDiv(ZBelow(t, n, A), ZAbove(t, A)), Iz)}

\* C26: after _compute_tentative_compartments(Iz), whatever was computed by
\* earlier calls, the _node_inds of every non-root node n lists, once each,
\* exactly the proper ancestors A of n for which (sum of z_bar from n up to
\* but excluding A) / (sum of z_bar from A up to the root) > Iz, never a node
\* outside the ancestry of n, and the root's list is empty.
C26_CandidateRoots ==
    comp.pc # "idle" =>
        \A n \in DOMAIN net :
            /\ Range(hk[n]._node_inds) = CandidateRoots(net, n, comp.Iz)
            /\ Len(hk[n]._node_inds) = Cardinality(CandidateRoots(net, n, comp.Iz))
            /\ Range(hk[n]._node_inds) \subseteq Ancestors(net, n) \ {n}
            /\ is_root(net, n) => hk[n]._node_inds = <<>>

\* a node two levels below the root of which one proper ancestor passes the
\* test and the other does not
C26_Witness ==
    /\ comp.pc = "remove"
    /\ \E n \in DOMAIN net :
        /\ Cardinality(Ancestors(net, n)) = 3
        /\ Len(hk[n]._node_inds) = 1

\* sum of sfs[l] * gs[l] over a set of location indices
RECURSIVE ShuntSum(_, _, _)
ShuntSum(S, sfs, gs) ==
    IF S = {} THEN R(0)
    ELSE LET l == CHOOSE x \in S : TRUE
         IN  RAdd(RMul(sfs[l], gs[l]), ShuntSum(S \ {l}, sfs, gs))

\* sf <- sf / (1 + z_bar * sum(sf * g)) over the location set of node n
ShuntUpdate(t, n, sfs, gs) ==
    LET S == Range(t[n].loc_idxs)
        denom == RAdd(R(1), RMul(z_bar(t[n]), ShuntSum(S, sfs, gs)))
    IN  [i \in DOMAIN sfs |-> IF i \in S THEN RDiv(sfs[i], denom) ELSE sfs[i]]

\* the update made once at every node of a sequence, in its order
RECURSIVE UpdatedInOrder(_, _, _, _)
UpdatedInOrder(t, order, sfs, gs) ==
    IF order = <<>> THEN sfs
    ELSE UpdatedInOrder(t, Tail(order), ShuntUpdate(t, Head(order), sfs, gs), gs)

\* compute_cond_rescale has returned the factors for an array of conductances
\* of the length of the root's location list
RescaleReturned ==
    /\ ret.op = "compute_cond_rescale"
    /\ Cardinality(DOMAIN ret.arg) = Len(Root(net).loc_idxs)

\* the sweep that made the returned factors: it updates every node of the set
\* S exactly once, no other node, every node after all its children, the
\* returned factors are those updates applied in that order to factors of 1,
\* it ends with every leaf taken and without raising, and afterwards every
\* counter is 0
SweepsOver(S) ==
    LET run == SweepFrom(net, ret.arg, [i \in DOMAIN ret.arg |-> R(1)])
        upd == run.updated
    IN  /\ ret.err = "" /\ run.err = ""
        /\ Range(upd) = S
        /\ Len(upd) = Cardinality(S)
        /\ \A j \in DOMAIN upd :
                \A ch \in Range(net[upd[j]].child_nodes) :
                    \E i \in 1 .. j - 1 : upd[i] = ch
        /\ ret.val = UpdatedInOrder(net, upd, [i \in DOMAIN ret.arg |-> R(1)], ret.arg)
        /\ run.leafs = <<>>
        /\ \A n \in DOMAIN net : CondRescaleEnd(run).counter[n] = 0

\* C27 as stated: the update is applied exactly once at each node of the
\* tree, the root included.
C27_Original == RescaleReturned => SweepsOver(DOMAIN net)

\* C27: compute_cond_rescale is a post-order sweep over the nodes below the
\* root: the update sf <- sf / (1 + z_bar * sum(sf * g)) over the node's
\* location set is applied exactly once at every node except the root, never
\* at the root, and at each node only after it has been applied at all of
\* that node's children; the sweep ends when the last child of the root has
\* reported, with every leaf consumed, and every node's counter is reset to 0.
C27_PostOrderSweep == RescaleReturned => SweepsOver(DOMAIN net \ {RootIdx(net)})

\* the factors of a tree with a node below a child of the root, or two
\* children of the root, have been returned and one of them is below 1
C27_Witness ==
    /\ RescaleReturned
    /\ ret.err = ""
    /\ Cardinality(DOMAIN net) >= 3
    /\ \E i \in DOMAIN ret.val : RLt(ret.val[i], R(1))
    /\ Len(SweepFrom(net, ret.arg, [i \in DOMAIN ret.arg |-> R(1)]).updated) >= 2

\* the node indices of t are 0 .. n - 1, one node each, the root is node 0,
\* and every other node is listed once by its parent and by no other node
UniqueIndices(t) ==
    /\ DOMAIN t = 0 .. Cardinality(DOMAIN t) - 1
    /\ \A n \in DOMAIN t : t[n].index = n
    /\ RootIdx(t) = 0
    /\ \A n \in DOMAIN t \ {0} :
        /\ t[n].parent_node \in DOMAIN t
        /\ \A p \in DOMAIN t :
            Cardinality({k \in DOMAIN t[p].child_nodes : t[p].child_nodes[k] = n})
                = IF p = t[n].parent_node THEN 1 ELSE 0

SupersetInvariant(t) ==
    \A n \in DOMAIN t :
        \A ch \in Range(t[n].child_nodes) :
            Range(t[ch].loc_idxs) \subseteq Range(t[n].loc_idxs)

\* C29: the superset invariant survives every operation: after any sequence
\* of get_reduced_tree, improve_input_resistance, set_new_loc_idxs,
\* calc_compartmentalization and compute_cond_rescale on a NET in which it
\* holds, it holds in the caller's tree, in every returned reduced tree and
\* in the copy that the compartmentalization prunes.
C29_SupersetSurvives ==
    /\ SupersetInvariant(net)
    /\ (ret.op = "get_reduced_tree" /\ ret.val # NoTree) => SupersetInvariant(ret.val)
    /\ comp.pc # "idle" => SupersetInvariant(comp.net)

\* a tree to which improve_input_resistance has added a leaf under a node of
\* several locations has been reduced and the reduction kept that leaf
C29_Witness ==
    /\ nimprove > 0
    /\ ret.op = "get_reduced_tree" /\ ret.val # NoTree
    /\ \E n \in DOMAIN net :
        /\ n >= MaxNodes
        /\ Len(net[net[n].parent_node].loc_idxs) > 1
    /\ Cardinality(DOMAIN ret.val) >= 3

\* C30 as stated: create_corresponding_node(node_index) returns, for every
\* integer node_index and without raising, a NETNode that carries that index
\* and an empty location set.
C30_Original ==
    ret.op = "create_corresponding_node" =>
        /\ ret.err = ""
        /\ ret.val.index = ret.arg
        /\ ret.val.loc_idxs = <<>>

\* create_corresponding_node has raised the TypeError of Kernel(None)
C30_Witness ==
    /\ ret.op = "create_corresponding_node"
    /\ ret.arg = 1
    /\ ret.err = "TypeError"

====
